---- MODULE Spec2Model ----
(***************************************************************************)
(* lokoctl: the cluster apply driver (runClusterApply) with the Terraform  *)
(* execution plan, the cluster verification, the control plane upgrade and *)
(* the component apply phases, as a state machine.                         *)
(*                                                                         *)
(* One run of `lokoctl cluster apply` is one behaviour.  The configuration *)
(* (platform, flags, components) is drawn in Init; the answers of the      *)
(* external collaborators (Terraform, Helm, the Kubernetes API, the user   *)
(* at the prompt) are drawn where the code asks for them.                  *)
(*                                                                         *)
(* `lokoctl component delete` (deleteHelmRelease, deleteNS) is a second    *)
(* state machine, SpecDelete, over the releases and namespaces of the      *)
(* components: one behaviour is a sequence of delete calls.                *)
(*                                                                         *)
(* Three further state machines stand beside them: SpecPoll, one call of   *)
(* waitForDeployment with its readiness poll; SpecAKS, one call of the AKS *)
(* platform's NewConfig with its validation; SpecKubeconfig, one           *)
(* resolution of the kubeconfig path.                                      *)
(***************************************************************************)
EXTENDS Integers, Sequences, FiniteSets, TLC

VARIABLES
    c,               \* the platform.Cluster constructed for the run
    confirm,         \* --confirm
    skipComponents,  \* --skip-components
    upgradeKubelets, \* --upgrade-kubelets
    components,      \* cc.RootConfig.Components (names, configuration order)
    pc,              \* position in runClusterApply
    outcome,         \* "running", "success", "cancelled" or "fatal"
    fatal,           \* what the Fatalf that ended the run reported
    renderedBackend, \* result of b.Render()
    files,           \* paths written below the asset directory (path elements)
    o,               \* the outputs ex.Output returned to clusterExists
    exists,          \* result of clusterExists
    typed,           \* the line the user typed at the prompt (words)
    step,            \* index of the plan step the loop is at
    hookDone,        \* the hook of the current step has returned nil
    applied,         \* plan steps Terraform has applied to the infrastructure
    calls,           \* calls made to the executor and the later phases, in order
    releases,        \* the filtered control plane chart list
    chartIdx,        \* index in releases of the chart the loop is at
    release,         \* Helm release state per control plane chart
    helmCalls,       \* Helm operations of the last upgradeComponent call
    installed,       \* component delete: the Helm release of each component
    namespaces,      \* component delete: the namespace of each component
    deletes,         \* component delete: the deleteHelmRelease calls, in order
    pollInterval,    \* waitForDeployment: retryInterval, in ticks of the clock
    pollTimeout,     \* waitForDeployment: timeout, in ticks of the clock
    now,             \* waitForDeployment: ticks since wait.PollImmediate was called
    pollPc,          \* waitForDeployment: position in the poll
    polled,          \* waitForDeployment: number of calls of the condition function
    observed,        \* waitForDeployment: what the last Get returned
    done,            \* waitForDeployment: what the last condition call returned
    pollErr,         \* waitForDeployment: the error wait.PollImmediate returned
    printed,         \* waitForDeployment: what the function printed at its end
    aksInput,        \* aks.NewConfig: the configuration body and the environment
    aksPc,           \* aks.NewConfig: "idle", "start" or "returned"
    aksConfig,       \* aks.NewConfig: the *Config returned (<<>> is nil)
    aksDiags,        \* aks.NewConfig: the diagnostics returned
    kubeInput,       \* getKubeconfig: flag, asset directory and environment
    kubePc,          \* getKubeconfig: "idle", "start" or "returned"
    kubePath,        \* getKubeconfig: the path returned (<<>> is "")
    kubeErr,         \* getKubeconfig: the error returned
    delArgs,         \* runDelete: the component names given as arguments
    delConfigured,   \* runDelete: cc.RootConfig.Components (names)
    delConfirm,      \* runDelete: --confirm
    delDeleteNS,     \* runDelete: --delete-namespace
    delPc,           \* runDelete: position in the function
    delOutcome,      \* runDelete: "running", "success", "cancelled" or "fatal"
    delTyped,        \* runDelete: the line the user typed at the prompt
    delObjects,      \* runDelete: componentsObjects (names)
    delIdx,          \* deleteComponents: index of the component the loop is at
    nsInput,         \* UpdateNamespace: the Namespace passed in, the namespace as it was
    nsPc,            \* UpdateNamespace: "idle", "start" or "returned"
    nsObject,        \* UpdateNamespace: labels and annotations of the namespace in the cluster
    nsErr            \* UpdateNamespace: the error returned, or "panic"

\* The state of a cluster apply run.
applyVars == <<c, confirm, skipComponents, upgradeKubelets, components, pc, outcome,
               fatal, renderedBackend, files, o, exists, typed, step, hookDone,
               applied, calls, releases, chartIdx, release, helmCalls>>

\* The state `lokoctl component delete` works on.
deleteVars == <<installed, namespaces, deletes>>

\* The state of one waitForDeployment call.
pollVars == <<pollInterval, pollTimeout, now, pollPc, polled, observed, done,
              pollErr, printed>>

\* The state of one aks.NewConfig call.
aksVars == <<aksInput, aksPc, aksConfig, aksDiags>>

\* The state of one kubeconfig path resolution.
kubeVars == <<kubeInput, kubePc, kubePath, kubeErr>>

\* The state of one `lokoctl component delete` run, beside deleteVars.
runDeleteVars == <<delArgs, delConfigured, delConfirm, delDeleteNS, delPc,
                   delOutcome, delTyped, delObjects, delIdx>>

\* The state of one UpdateNamespace call.
nsVars == <<nsInput, nsPc, nsObject, nsErr>>

vars == <<applyVars, deleteVars, pollVars, aksVars, kubeVars, runDeleteVars, nsVars>>

\* What each of the state machines leaves alone.
notApplyVars == <<deleteVars, pollVars, aksVars, kubeVars, runDeleteVars, nsVars>>

notDeleteVars == <<applyVars, pollVars, aksVars, kubeVars, runDeleteVars, nsVars>>

notPollVars == <<applyVars, deleteVars, aksVars, kubeVars, runDeleteVars, nsVars>>

notAKSVars == <<applyVars, deleteVars, pollVars, kubeVars, runDeleteVars, nsVars>>

notKubeVars == <<applyVars, deleteVars, pollVars, aksVars, runDeleteVars, nsVars>>

\* A component delete run works on deleteVars as well.
notRunDeleteVars == <<applyVars, pollVars, aksVars, kubeVars, nsVars>>

notNamespaceVars == <<applyVars, deleteVars, pollVars, aksVars, kubeVars, runDeleteVars>>

-----------------------------------------------------------------------------
(* Bounds *)

MaxSteps == 2

MaxComponents == 2

MaxDeletes == 2

MaxInterval == 2

MaxTimeout == 3

MaxReplicas == 2

MaxPools == 3

-----------------------------------------------------------------------------
(* platform: control plane charts and execution plans *)

CommonControlPlaneCharts == <<"calico", "kube-apiserver", "kubernetes", "pod-checkpointer">>

Kubelet == "kubelet"

\* s with x inserted after its first k elements.
InsertAt(s, x, k) == SubSeq(s, 1, k) \o <<x>> \o SubSeq(s, k + 1, Len(s))

\* Chart lists a platform may return from ControlPlaneCharts().
ChartLists ==
    {CommonControlPlaneCharts}
        \cup {InsertAt(CommonControlPlaneCharts, Kubelet, k) : k \in {0, 2, 4}}

AllCharts == {"calico", "kube-apiserver", "kubernetes", "pod-checkpointer", "kubelet"}

Targets == <<"-target=module.dns", "-target=module.bootstrap",
             "-target=module.controllers", "-target=module.workers">>

\* A TerraformExecutionStep: the i-th of n steps; only the last applies everything.
TerraformExecutionStep(i, n, hook) ==
    [Description |-> i,
     Args |-> IF i = n THEN <<"apply", "-auto-approve">>
                       ELSE <<"apply", "-auto-approve", Targets[i]>>,
     PreExecutionHook |-> hook]

\* The execution plans of n steps, each step with or without a hook.
PlansOfLen(n) ==
    {[i \in 1..n |-> TerraformExecutionStep(i, n, h[i])] : h \in [1..n -> BOOLEAN]}

Plans == UNION {PlansOfLen(n) : n \in 1..MaxSteps}

\* aks.Cluster: managed, no control plane charts, one step without a hook.
AKSCluster ==
    [platform |-> "aks",
     managed |-> TRUE,
     charts |-> <<>>,
     plan |-> <<[Description |-> 1, Args |-> <<"apply", "-auto-approve">>,
                 PreExecutionHook |-> FALSE]>>]

\* The implementations of the Cluster interface the run may be given.
Clusters ==
    {AKSCluster}
        \cup {[platform |-> "self-hosted", managed |-> FALSE, charts |-> ch, plan |-> p] :
                ch \in ChartLists, p \in Plans}
        \cup {[platform |-> "self-hosted", managed |-> FALSE, charts |-> <<>>,
               plan |-> AKSCluster.plan]}
        \cup {[platform |-> "managed", managed |-> TRUE,
               charts |-> InsertAt(CommonControlPlaneCharts, Kubelet, 2),
               plan |-> AKSCluster.plan]}

ControlPlaneCharts(cl) == cl.charts

Managed(cl) == cl.managed

TerraformExecutionPlan(cl) == cl.plan

-----------------------------------------------------------------------------
(* configuration *)

ComponentNames == <<"contour", "rook", "gangway">>

\* The component lists of a configuration: the first n names, n <= MaxComponents.
ComponentLists == {SubSeq(ComponentNames, 1, n) : n \in 0..MaxComponents}

\* Renderings of the backend configuration, as sequences of characters.
Renderings == {<<>>, <<" ", "\n">>, <<" ", "b", "\n">>}

IsSpace(ch) == ch \in {" ", "\n", "\t"}

RECURSIVE TrimLeft(_)
TrimLeft(s) == IF s # <<>> /\ IsSpace(Head(s)) THEN TrimLeft(Tail(s)) ELSE s

RECURSIVE TrimRight(_)
TrimRight(s) ==
    IF s # <<>> /\ IsSpace(s[Len(s)]) THEN TrimRight(SubSeq(s, 1, Len(s) - 1)) ELSE s

\* TrimSpace that trims nothing.
KeepSpace(s) == s

\* strings.TrimSpace
TrimSpace(s) == TrimRight(TrimLeft(s))

-----------------------------------------------------------------------------
(* the log of calls *)

\* A call the run makes: to the executor (Init, Output, Plan, Hook, Execute),
\* to the verifier, to upgradeComponent or to applyComponents, with its result.
Event(op, i, chart, ok) ==
    [op |-> op, step |-> i, chart |-> chart, ok |-> ok, args |-> <<>>]

\* ex.Execute(args...) for plan step i.
ExecuteEvent(i, args, ok) ==
    [op |-> "Execute", step |-> i, chart |-> "", ok |-> ok, args |-> args]

NoFatal == [at |-> "", step |-> 0]

Fatalf(at, i) ==
    /\ outcome' = "fatal"
    /\ fatal' = [at |-> at, step |-> i]
    /\ pc' = "exit"

-----------------------------------------------------------------------------
(* the external collaborators *)

\* Output sets `terraform output` may return: the keys of the map.
OutputSets == {{}, {"kubeconfig"}, {"kubeconfig", "initialized"}}

\* Lines a user may type at the prompt, as the words of the line.
Lines == {<<>>, <<"yes">>, <<"no">>, <<"y">>, <<"Yes">>, <<"yes", "please">>}

\* fmt.Scanln(&input): stores the first space-separated word of the line; an
\* empty line stores nothing, and what follows the first word only makes the
\* (ignored) error non-nil.
Scanln(line) == IF line = <<>> THEN "" ELSE line[1]

askForConfirmation(line) == Scanln(line) = "yes"

\* clusterExists that needs more than one output.
clusterExistsMoreThanOne(out) == Cardinality(out) > 1

clusterExists(out) == Cardinality(out) # 0

-----------------------------------------------------------------------------
(* runClusterApply *)

\* The components `lokoctl component delete` is called for.
DeleteNames == {"contour", "rook"}

\* No component delete takes part in a cluster apply run.
DeleteIdle ==
    /\ installed = [n \in DeleteNames |-> "absent"]
    /\ namespaces = [n \in DeleteNames |-> "absent"]
    /\ deletes = <<>>

\* No waitForDeployment call takes part.
PollIdle ==
    /\ pollInterval = 1
    /\ pollTimeout = 1
    /\ now = 0
    /\ pollPc = "idle"
    /\ polled = 0
    /\ observed = [err |-> "none", specReplicas |-> 0, replicas |-> 0,
                   availableReplicas |-> 0]
    /\ done = FALSE
    /\ pollErr = "pending"
    /\ printed = <<>>

\* No aks.NewConfig call takes part.
AKSIdle ==
    /\ aksInput = "none"
    /\ aksPc = "idle"
    /\ aksConfig = <<>>
    /\ aksDiags = <<>>

\* No kubeconfig path is resolved.
KubeIdle ==
    /\ kubeInput = "none"
    /\ kubePc = "idle"
    /\ kubePath = <<>>
    /\ kubeErr = "nil"

\* No `lokoctl component delete` run takes part.
RunDeleteIdle ==
    /\ delArgs = <<>>
    /\ delConfigured = <<>>
    /\ delConfirm = FALSE
    /\ delDeleteNS = FALSE
    /\ delPc = "idle"
    /\ delOutcome = "idle"
    /\ delTyped = <<>>
    /\ delObjects = <<>>
    /\ delIdx = 1

\* No UpdateNamespace call takes part.
NamespaceIdle ==
    /\ nsInput = "none"
    /\ nsPc = "idle"
    /\ nsObject = [labels |-> <<>>, annotations |-> <<>>]
    /\ nsErr = "nil"

Init ==
    /\ c \in Clusters
    /\ confirm \in BOOLEAN
    /\ skipComponents \in BOOLEAN
    /\ upgradeKubelets \in BOOLEAN
    /\ components \in ComponentLists
    /\ pc = "readConfig"
    /\ outcome = "running"
    /\ fatal = NoFatal
    /\ renderedBackend = <<>>
    /\ files = {}
    /\ o = {}
    /\ exists = FALSE
    /\ typed = <<>>
    /\ step = 1
    /\ hookDone = FALSE
    /\ applied = {}
    /\ calls = <<>>
    /\ releases = <<>>
    /\ chartIdx = 1
    /\ release = [ch \in AllCharts |-> "unobserved"]
    /\ helmCalls = <<>>
    /\ DeleteIdle
    /\ PollIdle
    /\ AKSIdle
    /\ KubeIdle
    /\ RunDeleteIdle
    /\ NamespaceIdle

Running(at) == pc = at /\ outcome = "running"

\* config.Read and the check for a cluster block.
ReadConfig ==
    /\ Running("readConfig")
    /\ \E r \in {"ok", "diags", "no cluster"} :
        IF r = "ok"
        THEN pc' = "createCluster" /\ UNCHANGED <<outcome, fatal>>
        ELSE Fatalf(r, 0)
    /\ UNCHANGED <<c, confirm, skipComponents, upgradeKubelets, components,
                   renderedBackend, files, o, exists, typed, step, hookDone,
                   applied, calls, releases, chartIdx, release, helmCalls>>
    /\ UNCHANGED notApplyVars

\* createCluster: the platform's constructor validates the decoded configuration.
CreateCluster ==
    /\ Running("createCluster")
    /\ \E ok \in BOOLEAN :
        IF ok
        THEN pc' = "backend" /\ UNCHANGED <<outcome, fatal>>
        ELSE Fatalf("cluster configuration", 0)
    /\ UNCHANGED <<c, confirm, skipComponents, upgradeKubelets, components,
                   renderedBackend, files, o, exists, typed, step, hookDone,
                   applied, calls, releases, chartIdx, release, helmCalls>>
    /\ UNCHANGED notApplyVars

\* getConfiguredBackend, b.Validate and b.Render.
ConfigureBackend ==
    /\ Running("backend")
    /\ \/ /\ \E r \in Renderings : renderedBackend' = r
          /\ pc' = "assets"
          /\ UNCHANGED <<outcome, fatal>>
       \/ /\ \E r \in {"backend configuration", "backend validation", "backend render"} :
                Fatalf(r, 0)
          /\ UNCHANGED renderedBackend
    /\ UNCHANGED <<c, confirm, skipComponents, upgradeKubelets, components,
                   files, o, exists, typed, step, hookDone, applied, calls,
                   releases, chartIdx, release, helmCalls>>
    /\ UNCHANGED notApplyVars

\* homedir.Expand, assets.Extract of the Terraform modules, os.MkdirAll.
ExtractAssets ==
    /\ Running("assets")
    /\ \/ /\ files' = files \cup {<<"lokomotive-kubernetes">>, <<"terraform">>}
          /\ pc' = "writeBackend"
          /\ UNCHANGED <<outcome, fatal>>
       \/ /\ Fatalf("expanding path", 0)
          /\ UNCHANGED files
       \/ /\ Fatalf("writing Terraform files", 0)
          /\ UNCHANGED files
       \/ /\ Fatalf("creating Terraform root directory", 0)
          /\ files' = files \cup {<<"lokomotive-kubernetes">>}
    /\ UNCHANGED <<c, confirm, skipComponents, upgradeKubelets, components,
                   renderedBackend, o, exists, typed, step, hookDone, applied,
                   calls, releases, chartIdx, release, helmCalls>>
    /\ UNCHANGED notApplyVars

\* The backend file is created only if the rendered string is not blank;
\* writeToFile may fail before or after os.Create has made the file.
WriteBackend ==
    /\ Running("writeBackend")
    /\ IF Len(TrimSpace(renderedBackend)) > 0
       THEN \/ /\ files' = files \cup {<<"terraform", "backend.tf">>}
               /\ pc' = "validate"
               /\ UNCHANGED <<outcome, fatal>>
            \/ /\ Fatalf("writing backend file", 0)
               /\ UNCHANGED files
            \/ /\ Fatalf("writing backend file", 0)
               /\ files' = files \cup {<<"terraform", "backend.tf">>}
       ELSE /\ pc' = "validate"
            /\ UNCHANGED <<files, outcome, fatal>>
    /\ UNCHANGED <<c, confirm, skipComponents, upgradeKubelets, components,
                   renderedBackend, o, exists, typed, step, hookDone, applied,
                   calls, releases, chartIdx, release, helmCalls>>
    /\ UNCHANGED notApplyVars

\* Validate with the validation error logged and not acted on.
ValidateIgnoringError ==
    /\ Running("validate")
    /\ \E ok \in BOOLEAN :
        /\ calls' = Append(calls, Event("Validate", 0, "", ok))
        /\ pc' = "charts"
        /\ UNCHANGED <<outcome, fatal>>
    /\ UNCHANGED <<c, confirm, skipComponents, upgradeKubelets, components,
                   renderedBackend, files, o, exists, typed, step, hookDone,
                   applied, releases, chartIdx, release, helmCalls>>
    /\ UNCHANGED notApplyVars

\* c.Validate()
Validate ==
    /\ Running("validate")
    /\ \E ok \in BOOLEAN :
        /\ calls' = Append(calls, Event("Validate", 0, "", ok))
        /\ IF ok
           THEN pc' = "charts" /\ UNCHANGED <<outcome, fatal>>
           ELSE Fatalf("cluster config validation", 0)
    /\ UNCHANGED <<c, confirm, skipComponents, upgradeKubelets, components,
                   renderedBackend, files, o, exists, typed, step, hookDone,
                   applied, releases, chartIdx, release, helmCalls>>
    /\ UNCHANGED notApplyVars

ChartPath(ch) == <<"cluster-assets", "charts", "kube-system", ch>>

Range(s) == {s[i] : i \in 1..Len(s)}

\* The control plane charts are extracted to the assets directory, in order.
ExtractCharts ==
    /\ Running("charts")
    /\ \/ /\ files' = files \cup {ChartPath(ch) : ch \in Range(ControlPlaneCharts(c))}
          /\ pc' = "rootModule"
          /\ UNCHANGED <<outcome, fatal>>
       \/ \E k \in 1..Len(ControlPlaneCharts(c)) :
            /\ files' = files \cup {ChartPath(ControlPlaneCharts(c)[i]) : i \in 1..(k - 1)}
            /\ Fatalf("extracting charts", 0)
    /\ UNCHANGED <<c, confirm, skipComponents, upgradeKubelets, components,
                   renderedBackend, o, exists, typed, step, hookDone, applied,
                   calls, releases, chartIdx, release, helmCalls>>
    /\ UNCHANGED notApplyVars

\* c.TerraformRootModule() and the write of terraform/cluster.tf.
WriteRootModule ==
    /\ Running("rootModule")
    /\ \/ /\ files' = files \cup {<<"terraform", "cluster.tf">>}
          /\ pc' = "executor"
          /\ UNCHANGED <<outcome, fatal>>
       \/ /\ \E r \in {"rendering root module", "writing root module"} : Fatalf(r, 0)
          /\ UNCHANGED files
    /\ UNCHANGED <<c, confirm, skipComponents, upgradeKubelets, components,
                   renderedBackend, o, exists, typed, step, hookDone, applied,
                   calls, releases, chartIdx, release, helmCalls>>
    /\ UNCHANGED notApplyVars

\* terraform.NewExecutor and ex.Init().
InitExecutor ==
    /\ Running("executor")
    /\ \/ /\ Fatalf("creating executor", 0)
          /\ UNCHANGED calls
       \/ \E ok \in BOOLEAN :
            /\ calls' = Append(calls, Event("Init", 0, "", ok))
            /\ IF ok
               THEN pc' = "exists" /\ UNCHANGED <<outcome, fatal>>
               ELSE Fatalf("initializing Terraform", 0)
    /\ UNCHANGED <<c, confirm, skipComponents, upgradeKubelets, components,
                   renderedBackend, files, o, exists, typed, step, hookDone,
                   applied, releases, chartIdx, release, helmCalls>>
    /\ UNCHANGED notApplyVars

-----------------------------------------------------------------------------
(* Terraform: existence check, plan preview, confirmation, execution plan *)

\* ClusterExists that sends every existing cluster to the plan preview.
ClusterExistsPreviewingAlways ==
    /\ Running("exists")
    /\ \/ \E out \in OutputSets :
            /\ o' = out
            /\ exists' = clusterExists(out)
            /\ calls' = Append(calls, Event("Output", 0, "", TRUE))
            /\ pc' = IF exists' THEN "plan" ELSE "steps"
            /\ UNCHANGED <<outcome, fatal>>
       \/ /\ calls' = Append(calls, Event("Output", 0, "", FALSE))
          /\ Fatalf("checking if cluster exists", 0)
          /\ UNCHANGED <<o, exists>>
    /\ UNCHANGED <<c, confirm, skipComponents, upgradeKubelets, components,
                   renderedBackend, files, typed, step, hookDone, applied,
                   releases, chartIdx, release, helmCalls>>
    /\ UNCHANGED notApplyVars

\* exists := clusterExists(ctxLogger, ex)
ClusterExists ==
    /\ Running("exists")
    /\ \/ \E out \in OutputSets :
            /\ o' = out
            /\ exists' = clusterExists(out)
            /\ calls' = Append(calls, Event("Output", 0, "", TRUE))
            /\ pc' = IF exists' /\ ~confirm THEN "plan" ELSE "steps"
            /\ UNCHANGED <<outcome, fatal>>
       \/ /\ calls' = Append(calls, Event("Output", 0, "", FALSE))
          /\ Fatalf("checking if cluster exists", 0)
          /\ UNCHANGED <<o, exists>>
    /\ UNCHANGED <<c, confirm, skipComponents, upgradeKubelets, components,
                   renderedBackend, files, typed, step, hookDone, applied,
                   releases, chartIdx, release, helmCalls>>
    /\ UNCHANGED notApplyVars

\* ex.Plan(), only for an existing cluster without --confirm.
Plan ==
    /\ Running("plan")
    /\ \E ok \in BOOLEAN :
        /\ calls' = Append(calls, Event("Plan", 0, "", ok))
        /\ IF ok
           THEN pc' = "confirm" /\ UNCHANGED <<outcome, fatal>>
           ELSE Fatalf("reconciling cluster state", 0)
    /\ UNCHANGED <<c, confirm, skipComponents, upgradeKubelets, components,
                   renderedBackend, files, o, exists, typed, step, hookDone,
                   applied, releases, chartIdx, release, helmCalls>>
    /\ UNCHANGED notApplyVars

\* askForConfirmation("Do you want to proceed with cluster apply?")
AskForConfirmation ==
    /\ Running("confirm")
    /\ \E line \in Lines :
        /\ typed' = line
        /\ IF askForConfirmation(line)
           THEN pc' = "steps" /\ UNCHANGED outcome
           ELSE pc' = "exit" /\ outcome' = "cancelled"
    /\ UNCHANGED <<c, confirm, skipComponents, upgradeKubelets, components,
                   fatal, renderedBackend, files, o, exists, step, hookDone,
                   applied, calls, releases, chartIdx, release, helmCalls>>
    /\ UNCHANGED notApplyVars

CurrentStep == TerraformExecutionPlan(c)[step]

\* RunHook with the hook's error logged and not acted on.
RunHookIgnoringError ==
    /\ Running("steps")
    /\ CurrentStep.PreExecutionHook
    /\ ~hookDone
    /\ \E ok \in BOOLEAN :
        /\ calls' = Append(calls, Event("Hook", step, "", ok))
        /\ hookDone' = TRUE
    /\ UNCHANGED <<c, confirm, skipComponents, upgradeKubelets, components, pc,
                   outcome, fatal, renderedBackend, files, o, exists, typed,
                   step, applied, releases, chartIdx, release, helmCalls>>
    /\ UNCHANGED notApplyVars

\* step.PreExecutionHook(ex), when the step has one.
RunHook ==
    /\ Running("steps")
    /\ CurrentStep.PreExecutionHook
    /\ ~hookDone
    /\ \E ok \in BOOLEAN :
        /\ calls' = Append(calls, Event("Hook", step, "", ok))
        /\ IF ok
           THEN hookDone' = TRUE /\ UNCHANGED <<pc, outcome, fatal>>
           ELSE Fatalf("hook", step) /\ UNCHANGED hookDone
    /\ UNCHANGED <<c, confirm, skipComponents, upgradeKubelets, components,
                   renderedBackend, files, o, exists, typed, step, applied,
                   releases, chartIdx, release, helmCalls>>
    /\ UNCHANGED notApplyVars

\* ExecuteStep that does not wait for the step's hook.
ExecuteStepBeforeHook ==
    /\ Running("steps")
    /\ \E ok \in BOOLEAN :
        /\ calls' = Append(calls, ExecuteEvent(step, CurrentStep.Args, ok))
        /\ IF ok
           THEN /\ applied' = applied \cup {step}
                /\ step' = step + 1
                /\ hookDone' = FALSE
                /\ pc' = IF step < Len(TerraformExecutionPlan(c)) THEN "steps" ELSE "verify"
                /\ UNCHANGED <<outcome, fatal>>
           ELSE /\ Fatalf("execute", step)
                /\ UNCHANGED <<applied, step, hookDone>>
    /\ UNCHANGED <<c, confirm, skipComponents, upgradeKubelets, components,
                   renderedBackend, files, o, exists, typed, releases, chartIdx,
                   release, helmCalls>>
    /\ UNCHANGED notApplyVars

\* ExecuteStep that goes on with the next step when Execute fails.
ExecuteStepContinuing ==
    /\ Running("steps")
    /\ CurrentStep.PreExecutionHook => hookDone
    /\ \E ok \in BOOLEAN :
        /\ calls' = Append(calls, ExecuteEvent(step, CurrentStep.Args, ok))
        /\ applied' = IF ok THEN applied \cup {step} ELSE applied
        /\ step' = step + 1
        /\ hookDone' = FALSE
        /\ pc' = IF step < Len(TerraformExecutionPlan(c)) THEN "steps" ELSE "verify"
        /\ UNCHANGED <<outcome, fatal>>
    /\ UNCHANGED <<c, confirm, skipComponents, upgradeKubelets, components,
                   renderedBackend, files, o, exists, typed, releases, chartIdx,
                   release, helmCalls>>
    /\ UNCHANGED notApplyVars

\* ExecuteStep that destroys what was applied when Execute fails.
ExecuteStepRollingBack ==
    /\ Running("steps")
    /\ CurrentStep.PreExecutionHook => hookDone
    /\ \E ok \in BOOLEAN :
        /\ IF ok
           THEN /\ calls' = Append(calls, ExecuteEvent(step, CurrentStep.Args, ok))
                /\ applied' = applied \cup {step}
                /\ step' = step + 1
                /\ hookDone' = FALSE
                /\ pc' = IF step < Len(TerraformExecutionPlan(c)) THEN "steps" ELSE "verify"
                /\ UNCHANGED <<outcome, fatal>>
           ELSE /\ calls' = calls \o <<ExecuteEvent(step, CurrentStep.Args, ok),
                                        ExecuteEvent(step, <<"destroy", "-auto-approve">>, TRUE)>>
                /\ applied' = {}
                /\ Fatalf("execute", step)
                /\ UNCHANGED <<step, hookDone>>
    /\ UNCHANGED <<c, confirm, skipComponents, upgradeKubelets, components,
                   renderedBackend, files, o, exists, typed, releases, chartIdx,
                   release, helmCalls>>
    /\ UNCHANGED notApplyVars

\* ExecuteStep that leaves the loop after the first step that succeeds.
ExecuteStepLeavingEarly ==
    /\ Running("steps")
    /\ CurrentStep.PreExecutionHook => hookDone
    /\ \E ok \in BOOLEAN :
        /\ calls' = Append(calls, ExecuteEvent(step, CurrentStep.Args, ok))
        /\ IF ok
           THEN /\ applied' = applied \cup {step}
                /\ step' = step + 1
                /\ hookDone' = FALSE
                /\ pc' = "verify"
                /\ UNCHANGED <<outcome, fatal>>
           ELSE /\ Fatalf("execute", step)
                /\ UNCHANGED <<applied, step, hookDone>>
    /\ UNCHANGED <<c, confirm, skipComponents, upgradeKubelets, components,
                   renderedBackend, files, o, exists, typed, releases, chartIdx,
                   release, helmCalls>>
    /\ UNCHANGED notApplyVars

\* ex.Execute(step.Args...), then the next step of the plan or the end of the loop.
ExecuteStep ==
    /\ Running("steps")
    /\ CurrentStep.PreExecutionHook => hookDone
    /\ \E ok \in BOOLEAN :
        /\ calls' = Append(calls, ExecuteEvent(step, CurrentStep.Args, ok))
        /\ IF ok
           THEN /\ applied' = applied \cup {step}
                /\ step' = step + 1
                /\ hookDone' = FALSE
                /\ pc' = IF step < Len(TerraformExecutionPlan(c)) THEN "steps" ELSE "verify"
                /\ UNCHANGED <<outcome, fatal>>
           ELSE /\ Fatalf("execute", step)
                /\ UNCHANGED <<applied, step, hookDone>>
    /\ UNCHANGED <<c, confirm, skipComponents, upgradeKubelets, components,
                   renderedBackend, files, o, exists, typed, releases, chartIdx,
                   release, helmCalls>>
    /\ UNCHANGED notApplyVars

-----------------------------------------------------------------------------
(* verification, control plane upgrade, components *)

\* VerifyCluster with the verification error logged and not acted on.
VerifyClusterIgnoringFailure ==
    /\ Running("verify")
    /\ \E r \in {"ok", "read kubeconfig", "clientset", "cluster client", "not ready"} :
        /\ calls' = Append(calls, Event("Verify", 0, "", r = "ok"))
        /\ pc' = IF exists /\ ~Managed(c) THEN "controlplane" ELSE "components"
    /\ UNCHANGED <<c, confirm, skipComponents, upgradeKubelets, components,
                   outcome, fatal, renderedBackend, files, o, exists, typed, step,
                   hookDone, applied, releases, chartIdx, release, helmCalls>>
    /\ UNCHANGED notApplyVars

\* VerifyCluster followed by a guard that does not ask whether the platform is managed.
VerifyClusterIgnoringManaged ==
    /\ Running("verify")
    /\ \E r \in {"ok", "read kubeconfig", "clientset", "cluster client", "not ready"} :
        /\ calls' = Append(calls, Event("Verify", 0, "", r = "ok"))
        /\ IF r = "ok"
           THEN /\ pc' = IF exists THEN "controlplane" ELSE "components"
                /\ UNCHANGED <<outcome, fatal>>
           ELSE Fatalf("verify cluster", 0)
    /\ UNCHANGED <<c, confirm, skipComponents, upgradeKubelets, components,
                   renderedBackend, files, o, exists, typed, step, hookDone,
                   applied, releases, chartIdx, release, helmCalls>>
    /\ UNCHANGED notApplyVars

\* verifyCluster(kubeconfigPath, c.Nodes()), then the guard of the control plane upgrade.
VerifyCluster ==
    /\ Running("verify")
    /\ \E r \in {"ok", "read kubeconfig", "clientset", "cluster client", "not ready"} :
        /\ calls' = Append(calls, Event("Verify", 0, "", r = "ok"))
        /\ IF r = "ok"
           THEN /\ pc' = IF exists /\ ~Managed(c) THEN "controlplane" ELSE "components"
                /\ UNCHANGED <<outcome, fatal>>
           ELSE Fatalf("verify cluster", 0)
    /\ UNCHANGED <<c, confirm, skipComponents, upgradeKubelets, components,
                   renderedBackend, files, o, exists, typed, step, hookDone,
                   applied, releases, chartIdx, release, helmCalls>>
    /\ UNCHANGED notApplyVars

\* The loop with `break` in the place of `continue`.
RECURSIVE FilterReleasesBreaking(_, _)
FilterReleasesBreaking(charts, kubelets) ==
    IF charts = <<>> THEN <<>>
    ELSE IF Head(charts) = Kubelet /\ ~kubelets
         THEN <<>>
         ELSE <<Head(charts)>> \o FilterReleasesBreaking(Tail(charts), kubelets)

\* The loop that builds `releases`: kubelet is left out unless requested.
RECURSIVE FilterReleases(_, _)
FilterReleases(charts, kubelets) ==
    IF charts = <<>> THEN <<>>
    ELSE IF Head(charts) = Kubelet /\ ~kubelets
         THEN FilterReleases(Tail(charts), kubelets)
         ELSE <<Head(charts)>> \o FilterReleases(Tail(charts), kubelets)

ControlPlane ==
    /\ Running("controlplane")
    /\ releases' = FilterReleases(ControlPlaneCharts(c), upgradeKubelets)
    /\ chartIdx' = 1
    /\ pc' = IF releases' = <<>> THEN "components" ELSE "upgrade"
    /\ UNCHANGED <<c, confirm, skipComponents, upgradeKubelets, components,
                   outcome, fatal, renderedBackend, files, o, exists, typed,
                   step, hookDone, applied, calls, release, helmCalls>>
    /\ UNCHANGED notApplyVars

HelmEvent(op, result) == [op |-> op, result |-> result]

\* util.ReleaseExists: only "release: not found" means the release is absent.
ReleaseExists(prior, historyFails) ==
    [exists |-> ~historyFails /\ prior # "absent", err |-> historyFails]

\* Where upgradeComponent may fail before it probes for the release.
PreProbeFailures == {"helm config", "load chart", "values"}

\* Where it may fail once the release has been probed.
PostProbeFailures == {"install", "upgrade"}

\* What the history query of the probe answers for a release in state prior.
History(prior) == IF prior = "absent" THEN "not found" ELSE prior

\* HelmOps that installs whatever the probe has answered.
HelmOpsAlwaysInstalling(prior, found, f) ==
    <<HelmEvent("history", History(prior)),
      HelmEvent("install", IF f = "install" THEN "error" ELSE "ok")>>
        \o (IF f = "install" THEN <<>>
            ELSE <<HelmEvent("upgrade", IF f = "upgrade" THEN "error" ELSE "ok")>>)

\* HelmOps that upgrades only a release whose values differ from the desired ones.
HelmOpsUpgradingOnChange(prior, found, f) ==
    <<HelmEvent("history", History(prior))>>
        \o (IF ~found
            THEN <<HelmEvent("install", IF f = "install" THEN "error" ELSE "ok")>>
            ELSE <<>>)
        \o (IF f = "install" \/ prior = "current" THEN <<>>
            ELSE <<HelmEvent("upgrade", IF f = "upgrade" THEN "error" ELSE "ok")>>)

\* The Helm operations upgradeComponent issues for a release in state prior
\* once the probe has answered found (whether the release exists), failing
\* at f ("none": nowhere).
HelmOps(prior, found, f) ==
    <<HelmEvent("history", History(prior))>>
        \o (IF ~found
            THEN <<HelmEvent("install", IF f = "install" THEN "error" ELSE "ok")>>
            ELSE <<>>)
        \o (IF f = "install" THEN <<>>
            ELSE <<HelmEvent("upgrade", IF f = "upgrade" THEN "error" ELSE "ok")>>)

\* install.Atomic = true
installAtomic == TRUE

\* An upgrade issued without the atomic flag.
updateNotAtomic == FALSE

\* update.Atomic = true
updateAtomic == TRUE

\* ReleaseAfter of a call that installs a missing release and upgrades nothing.
ReleaseAfterWithoutUpgrade(prior, f) ==
    IF f = "install" THEN prior
    ELSE IF prior = "absent" THEN "stale" ELSE prior

\* The release after the call.  The install runs with an empty values map,
\* the upgrade with the desired values.  An atomic operation that fails is
\* rolled back by Helm: the install leaves no release, the upgrade leaves
\* the revision it found (the one just installed, for a release that was
\* missing); without the flag the failed revision stays.
ReleaseAfter(prior, f) ==
    IF f = "install" THEN (IF installAtomic THEN prior ELSE "failed")
    ELSE IF f = "upgrade"
         THEN (IF updateAtomic THEN (IF prior = "absent" THEN "stale" ELSE prior)
                               ELSE "failed")
         ELSE "current"

\* The release is in the state Helm holds; it shows when it is first probed.
PriorStates(ch) ==
    IF release[ch] = "unobserved" THEN {"absent", "stale", "current"} ELSE {release[ch]}

\* upgradeComponent that logs a failure and lets the loop go on.
UpgradeComponentContinuing ==
    /\ Running("upgrade")
    /\ LET ch == releases[chartIdx] IN
       \E prior \in PriorStates(ch), f \in PostProbeFailures \cup {"none"} :
            /\ f = "install" => prior = "absent"
            /\ helmCalls' = HelmOps(prior, prior # "absent", f)
            /\ release' = [release EXCEPT ![ch] = ReleaseAfter(prior, f)]
            /\ calls' = Append(calls, Event("Upgrade", chartIdx, ch, f = "none"))
            /\ chartIdx' = chartIdx + 1
            /\ pc' = IF chartIdx < Len(releases) THEN "upgrade" ELSE "components"
            /\ UNCHANGED <<outcome, fatal>>
    /\ UNCHANGED <<c, confirm, skipComponents, upgradeKubelets, components,
                   renderedBackend, files, o, exists, typed, step, hookDone,
                   applied, releases>>
    /\ UNCHANGED notApplyVars

\* cu.upgradeComponent(c) for the chart the loop is at.
UpgradeComponent ==
    /\ Running("upgrade")
    /\ LET ch == releases[chartIdx] IN
       \/ \E f \in PreProbeFailures :
            /\ helmCalls' = <<>>
            /\ calls' = Append(calls, Event("Upgrade", chartIdx, ch, FALSE))
            /\ Fatalf(f, chartIdx)
            /\ UNCHANGED <<release, chartIdx>>
       \/ \E prior \in PriorStates(ch), historyFails \in BOOLEAN,
             f \in PostProbeFailures \cup {"none"} :
            LET probe == ReleaseExists(prior, historyFails) IN
            IF probe.err
            THEN /\ helmCalls' = <<HelmEvent("history", "error")>>
                 /\ calls' = Append(calls, Event("Upgrade", chartIdx, ch, FALSE))
                 /\ Fatalf("probe", chartIdx)
                 /\ UNCHANGED <<release, chartIdx>>
            ELSE /\ f = "install" => ~probe.exists
                 /\ helmCalls' = HelmOps(prior, probe.exists, f)
                 /\ release' = [release EXCEPT ![ch] = ReleaseAfter(prior, f)]
                 /\ calls' = Append(calls, Event("Upgrade", chartIdx, ch, f = "none"))
                 /\ IF f = "none"
                    THEN /\ chartIdx' = chartIdx + 1
                         /\ pc' = IF chartIdx < Len(releases) THEN "upgrade"
                                                              ELSE "components"
                         /\ UNCHANGED <<outcome, fatal>>
                    ELSE /\ Fatalf(f, chartIdx)
                         /\ UNCHANGED chartIdx
    /\ UNCHANGED <<c, confirm, skipComponents, upgradeKubelets, components,
                   renderedBackend, files, o, exists, typed, step, hookDone,
                   applied, releases>>
    /\ UNCHANGED notApplyVars

\* The call applyComponents(cc, kubeconfigPath, componentsToApply...).
ApplyComponentsEvent(names, ok) ==
    [op |-> "ApplyComponents", step |-> 0, chart |-> "", ok |-> ok, args |-> names]

\* componentsToApply: the names of cc.RootConfig.Components, in their order.
componentsToApply(cs) == [i \in 1..Len(cs) |-> cs[i]]

\* applyComponents: the components are applied one after another in the order
\* given; the first that fails (failAt, 0 for none) ends the iteration.
applyComponents(names, failAt) ==
    [i \in 1..(IF failAt = 0 THEN Len(names) ELSE failAt) |->
        Event("Apply", i, names[i], i # failAt)]

\* ApplyComponents that does not look at --skip-components.
ApplyComponentsIgnoringSkip ==
    /\ Running("components")
    /\ IF Len(componentsToApply(components)) = 0
       THEN /\ outcome' = "success"
            /\ pc' = "exit"
            /\ UNCHANGED <<fatal, calls>>
       ELSE \E failAt \in 0..Len(components) :
            /\ calls' = Append(calls, ApplyComponentsEvent(componentsToApply(components),
                                                          failAt = 0))
                            \o applyComponents(componentsToApply(components), failAt)
            /\ IF failAt = 0
               THEN outcome' = "success" /\ pc' = "exit" /\ UNCHANGED fatal
               ELSE Fatalf("applying components", 0)
    /\ UNCHANGED <<c, confirm, skipComponents, upgradeKubelets, components,
                   renderedBackend, files, o, exists, typed, step, hookDone,
                   applied, releases, chartIdx, release, helmCalls>>
    /\ UNCHANGED notApplyVars

\* ApplyComponents that hands the components over last to first.
ApplyComponentsReversed ==
    /\ Running("components")
    /\ IF skipComponents \/ Len(componentsToApply(components)) = 0
       THEN /\ outcome' = "success"
            /\ pc' = "exit"
            /\ UNCHANGED <<fatal, calls>>
       ELSE \E failAt \in 0..Len(components) :
            LET n == Len(components)
                reversed == [i \in 1..n |-> componentsToApply(components)[n + 1 - i]]
            IN  /\ calls' = Append(calls, ApplyComponentsEvent(reversed, failAt = 0))
                                \o applyComponents(reversed, failAt)
                /\ IF failAt = 0
                   THEN outcome' = "success" /\ pc' = "exit" /\ UNCHANGED fatal
                   ELSE Fatalf("applying components", 0)
    /\ UNCHANGED <<c, confirm, skipComponents, upgradeKubelets, components,
                   renderedBackend, files, o, exists, typed, step, hookDone,
                   applied, releases, chartIdx, release, helmCalls>>
    /\ UNCHANGED notApplyVars

\* The end of runClusterApply: skip, or apply the configured components.
ApplyComponents ==
    /\ Running("components")
    /\ IF skipComponents \/ Len(componentsToApply(components)) = 0
       THEN /\ outcome' = "success"
            /\ pc' = "exit"
            /\ UNCHANGED <<fatal, calls>>
       ELSE \E failAt \in 0..Len(components) :
            /\ calls' = Append(calls, ApplyComponentsEvent(componentsToApply(components),
                                                          failAt = 0))
                            \o applyComponents(componentsToApply(components), failAt)
            /\ IF failAt = 0
               THEN outcome' = "success" /\ pc' = "exit" /\ UNCHANGED fatal
               ELSE Fatalf("applying components", 0)
    /\ UNCHANGED <<c, confirm, skipComponents, upgradeKubelets, components,
                   renderedBackend, files, o, exists, typed, step, hookDone,
                   applied, releases, chartIdx, release, helmCalls>>
    /\ UNCHANGED notApplyVars

-----------------------------------------------------------------------------

Next ==
    \/ ReadConfig
    \/ CreateCluster
    \/ ConfigureBackend
    \/ ExtractAssets
    \/ WriteBackend
    \/ Validate
    \/ ExtractCharts
    \/ WriteRootModule
    \/ InitExecutor
    \/ ClusterExists
    \/ Plan
    \/ AskForConfirmation
    \/ RunHook
    \/ ExecuteStep
    \/ VerifyCluster
    \/ ControlPlane
    \/ UpgradeComponent
    \/ ApplyComponents

Spec == Init /\ [][Next]_vars

-----------------------------------------------------------------------------
(* lokoctl component delete: deleteHelmRelease and deleteNS *)

ReleaseStates == {"absent", "present"}

\* What the collaborators may answer during one deleteHelmRelease call for a
\* release in state rel and a namespace in state ns: cfg, util.HelmActionConfig
\* succeeds; history, the answer of history.Run; uninstall, uninstall.Run
\* succeeds; client, reading the kubeconfig and building the clientset;
\* nsDelete, the answer of Namespaces().Delete.
Answers(rel, ns) ==
    [cfg : BOOLEAN,
     history : IF rel = "absent" THEN {"not found", "error"} ELSE {"found", "error"},
     uninstall : BOOLEAN,
     client : {"ok", "read kubeconfig", "clientset"},
     nsDelete : IF ns = "absent" THEN {"not found", "error"} ELSE {"ok", "error"}]

\* errors.IsNotFound
IsNotFound(answer) == answer = "not found"

\* deleteNS that returns every error of the deletion, not found included.
deleteNSReturningNotFound(ns, env) ==
    IF env.client # "ok"
    THEN [ops |-> <<>>, err |-> env.client, namespace |-> ns]
    ELSE [ops |-> <<HelmEvent("delete namespace", env.nsDelete)>>,
          err |-> IF env.nsDelete = "ok" THEN "nil" ELSE "namespace delete",
          namespace |-> IF env.nsDelete = "ok" THEN "absent" ELSE ns]

\* deleteNS: a namespace that does not exist is not an error.
deleteNS(ns, env) ==
    IF env.client # "ok"
    THEN [ops |-> <<>>, err |-> env.client, namespace |-> ns]
    ELSE [ops |-> <<HelmEvent("delete namespace", env.nsDelete)>>,
          err |-> IF env.nsDelete = "ok" \/ IsNotFound(env.nsDelete)
                  THEN "nil" ELSE "namespace delete",
          namespace |-> IF env.nsDelete = "ok" THEN "absent" ELSE ns]

\* An end of deleteHelmRelease that deletes the namespace without being asked.
DeleteNamespaceStepUnasked(ops, rel, ns, deleteNSBool, env) ==
    [ops |-> ops \o deleteNS(ns, env).ops,
     err |-> deleteNS(ns, env).err,
     release |-> rel,
     namespace |-> deleteNS(ns, env).namespace]

\* The end of deleteHelmRelease: the namespace is deleted when asked for.
DeleteNamespaceStep(ops, rel, ns, deleteNSBool, env) ==
    IF deleteNSBool
    THEN [ops |-> ops \o deleteNS(ns, env).ops,
          err |-> deleteNS(ns, env).err,
          release |-> rel,
          namespace |-> deleteNS(ns, env).namespace]
    ELSE [ops |-> ops, err |-> "nil", release |-> rel, namespace |-> ns]

\* deleteHelmRelease that returns the error of the history query.
deleteHelmReleaseSurfacing(rel, ns, deleteNSBool, env) ==
    IF ~env.cfg
    THEN [ops |-> <<>>, err |-> "helm client", release |-> rel, namespace |-> ns]
    ELSE LET hist == <<HelmEvent("history", env.history)>> IN
         IF env.history = "found"
         THEN IF env.uninstall
              THEN DeleteNamespaceStep(hist \o <<HelmEvent("uninstall", "ok")>>,
                                       "absent", ns, deleteNSBool, env)
              ELSE [ops |-> hist \o <<HelmEvent("uninstall", "error")>>,
                    err |-> "uninstall", release |-> rel, namespace |-> ns]
         ELSE [ops |-> hist, err |-> "history", release |-> rel, namespace |-> ns]

\* deleteHelmRelease that uninstalls without looking at the history.
deleteHelmReleaseAlwaysUninstalling(rel, ns, deleteNSBool, env) ==
    IF ~env.cfg
    THEN [ops |-> <<>>, err |-> "helm client", release |-> rel, namespace |-> ns]
    ELSE LET hist == <<HelmEvent("history", env.history)>> IN
         IF env.uninstall
         THEN DeleteNamespaceStep(hist \o <<HelmEvent("uninstall", "ok")>>,
                                  "absent", ns, deleteNSBool, env)
         ELSE [ops |-> hist \o <<HelmEvent("uninstall", "error")>>,
               err |-> "uninstall", release |-> rel, namespace |-> ns]

\* deleteHelmRelease(c, kubeconfig, deleteNSBool): the release is uninstalled
\* only if the history query returns no error of any kind.
deleteHelmRelease(rel, ns, deleteNSBool, env) ==
    IF ~env.cfg
    THEN [ops |-> <<>>, err |-> "helm client", release |-> rel, namespace |-> ns]
    ELSE LET hist == <<HelmEvent("history", env.history)>> IN
         IF env.history = "found"
         THEN IF env.uninstall
              THEN DeleteNamespaceStep(hist \o <<HelmEvent("uninstall", "ok")>>,
                                       "absent", ns, deleteNSBool, env)
              ELSE [ops |-> hist \o <<HelmEvent("uninstall", "error")>>,
                    err |-> "uninstall", release |-> rel, namespace |-> ns]
         ELSE DeleteNamespaceStep(hist, rel, ns, deleteNSBool, env)

\* No cluster apply run takes part in a component delete.
ApplyIdle ==
    /\ c = AKSCluster
    /\ confirm = FALSE
    /\ skipComponents = FALSE
    /\ upgradeKubelets = FALSE
    /\ components = <<>>
    /\ pc = "exit"
    /\ outcome = "success"
    /\ fatal = NoFatal
    /\ renderedBackend = <<>>
    /\ files = {}
    /\ o = {}
    /\ exists = FALSE
    /\ typed = <<>>
    /\ step = 1
    /\ hookDone = FALSE
    /\ applied = {}
    /\ calls = <<>>
    /\ releases = <<>>
    /\ chartIdx = 1
    /\ release = [ch \in AllCharts |-> "unobserved"]
    /\ helmCalls = <<>>

\* The cluster before the first delete: each component installed or not, its
\* namespace there or not.
InitDelete ==
    /\ ApplyIdle
    /\ installed \in [DeleteNames -> ReleaseStates]
    /\ namespaces \in [DeleteNames -> ReleaseStates]
    /\ deletes = <<>>
    /\ PollIdle
    /\ AKSIdle
    /\ KubeIdle
    /\ RunDeleteIdle
    /\ NamespaceIdle

\* One call of deleteHelmRelease, as deleteComponents makes it for a component.
DeleteHelmRelease ==
    /\ Len(deletes) < MaxDeletes
    /\ \E name \in DeleteNames, deleteNSBool \in BOOLEAN :
        \E env \in Answers(installed[name], namespaces[name]) :
            LET r == deleteHelmRelease(installed[name], namespaces[name],
                                       deleteNSBool, env)
            IN  /\ installed' = [installed EXCEPT ![name] = r.release]
                /\ namespaces' = [namespaces EXCEPT ![name] = r.namespace]
                /\ deletes' = Append(deletes,
                                     [name |-> name,
                                      deleteNS |-> deleteNSBool,
                                      before |-> installed[name],
                                      ops |-> r.ops,
                                      err |-> r.err,
                                      after |-> r.release,
                                      nsBefore |-> namespaces[name],
                                      nsAfter |-> r.namespace])
    /\ UNCHANGED notDeleteVars

NextDelete == DeleteHelmRelease

SpecDelete == InitDelete /\ [][NextDelete]_vars

-----------------------------------------------------------------------------
(* waitForDeployment: the readiness poll of a Deployment *)

\* What Deployments(ns).Get may return: the Deployment, with the replica
\* count its spec asks for (Spec.Replicas) and the counts of its status
\* (Status.Replicas, the pods the Deployment has; Status.AvailableReplicas),
\* or an error, not found or another one.
GetAnswers ==
    [err : {"nil"}, specReplicas : 0..MaxReplicas, replicas : 0..MaxReplicas,
     availableReplicas : 0..MaxReplicas]
    \cup [err : {"not found", "error"}, specReplicas : {0}, replicas : {0},
          availableReplicas : {0}]

\* A condition function that returns every error of Get, not found included.
conditionReturningNotFound(get) ==
    IF get.err # "nil"
    THEN [done |-> FALSE, err |-> get.err]
    ELSE IF get.replicas = 0
         THEN [done |-> FALSE, err |-> "nil"]
         ELSE IF get.availableReplicas = get.replicas
              THEN [done |-> TRUE, err |-> "nil"]
              ELSE [done |-> FALSE, err |-> "nil"]

\* The condition function handed to wait.PollImmediate, on the answer of Get.
condition(get) ==
    IF get.err # "nil"
    THEN IF IsNotFound(get.err)
         THEN [done |-> FALSE, err |-> "nil"]
         ELSE [done |-> FALSE, err |-> get.err]
    ELSE IF get.replicas = 0
         THEN [done |-> FALSE, err |-> "nil"]
         ELSE IF get.availableReplicas = get.replicas
              THEN [done |-> TRUE, err |-> "nil"]
              ELSE [done |-> FALSE, err |-> "nil"]

\* A ticker that fires on every tick of the clock.
DueEveryTick(t, interval) == TRUE

\* The ticker of the poller fires every interval.
Due(t, interval) == t % interval = 0

\* wait.PollImmediate after a call of the condition function that returned
\* r: an error ends the poll, so does done; otherwise the poll goes on until
\* the channel of the poller is closed at the timeout (closed), and the call
\* made at the close is the last one.
WaitFor(r, closed) ==
    IF r.err # "nil" THEN [pc |-> "returned", err |-> r.err]
    ELSE IF r.done THEN [pc |-> "returned", err |-> "nil"]
    ELSE IF closed THEN [pc |-> "returned", err |-> "timed out"]
    ELSE [pc |-> "waiting", err |-> "pending"]

\* The results waitForDeployment hands to its caller when the poll has
\* returned err: the function has no results.
waitForDeployment(err) == <<>>

\* One call of the condition function and what wait.PollImmediate and
\* waitForDeployment make of it: an error of the poll is printed.
Poll(closed) ==
    \E get \in GetAnswers :
        LET r == condition(get)
            w == WaitFor(r, closed)
        IN  /\ polled' = polled + 1
            /\ observed' = get
            /\ done' = r.done
            /\ pollPc' = w.pc
            /\ pollErr' = w.err
            /\ printed' = IF w.pc = "returned" /\ w.err # "nil"
                          THEN <<"error while waiting for the deployment", w.err>>
                          ELSE <<>>

InitPoll ==
    /\ ApplyIdle
    /\ DeleteIdle
    /\ AKSIdle
    /\ KubeIdle
    /\ RunDeleteIdle
    /\ NamespaceIdle
    /\ pollInterval \in 1..MaxInterval
    /\ pollTimeout \in 1..MaxTimeout
    /\ now = 0
    /\ pollPc = "start"
    /\ polled = 0
    /\ observed = [err |-> "none", specReplicas |-> 0, replicas |-> 0,
                   availableReplicas |-> 0]
    /\ done = FALSE
    /\ pollErr = "pending"
    /\ printed = <<>>

\* wait.PollImmediate checks the condition before it waits.
PollImmediate ==
    /\ pollPc = "start"
    /\ Poll(FALSE)
    /\ UNCHANGED <<pollInterval, pollTimeout, now>>
    /\ UNCHANGED notPollVars

\* The clock advances by one tick while the poll waits; when the ticker is
\* due its signal is delivered, or missed.
Advance ==
    /\ pollPc = "waiting"
    /\ now < pollTimeout
    /\ now' = now + 1
    /\ \/ Due(now + 1, pollInterval) /\ pollPc' = "tick"
       \/ pollPc' = "waiting"
    /\ UNCHANGED <<pollInterval, pollTimeout, polled, observed, done, pollErr, printed>>
    /\ UNCHANGED notPollVars

\* The condition is called for a signal of the ticker.
OnTick ==
    /\ pollPc = "tick"
    /\ Poll(FALSE)
    /\ UNCHANGED <<pollInterval, pollTimeout, now>>
    /\ UNCHANGED notPollVars

\* The timeout has elapsed: the channel is closed and the condition is
\* called once more.
OnClose ==
    /\ pollPc = "waiting"
    /\ now = pollTimeout
    /\ Poll(TRUE)
    /\ UNCHANGED <<pollInterval, pollTimeout, now>>
    /\ UNCHANGED notPollVars

NextPoll ==
    \/ PollImmediate
    \/ Advance
    \/ OnTick
    \/ OnClose

\* The clock runs and every call of the condition function returns.
SpecPoll == InitPoll /\ [][NextPoll]_vars /\ WF_vars(NextPoll)

-----------------------------------------------------------------------------
(* platform/aks: NewConfig and the validation of the configuration *)

\* A string field is empty or not.
Strs == {"", "x"}

PoolNames == {"a", "b"}

Counts == {-1, 0, 1}

\* worker_pool blocks: name, count and vm_size.
WorkerPools == [Name : PoolNames, Count : Counts, VMSize : Strs]

\* The worker pools that have a VM size.
SizedPools == {w \in WorkerPools : w.VMSize # ""}

\* Sequences over S of length at most n.
SeqsUpTo(S, n) == UNION {[1..k -> S] : k \in 0..n}

\* The fields of Config the validation reads, apart from the worker pools.
Fields ==
    [AssetDir : Strs, ClusterName : Strs, ResourceGroupName : Strs,
     TenantID : Strs, SubscriptionID : Strs,
     ClientID : Strs, ClientSecret : Strs, ApplicationName : Strs]

\* The same with the required fields set or missing together, and so the
\* tenant and subscription IDs, and the client ID and secret.
EvenFields ==
    {f \in Fields : /\ f.AssetDir = f.ClusterName
                    /\ f.ClusterName = f.ResourceGroupName
                    /\ f.TenantID = f.SubscriptionID
                    /\ f.ClientID = f.ClientSecret}

\* Config as gohcl.DecodeBody fills it.
WithPools(f, pools) ==
    [AssetDir |-> f.AssetDir, ClusterName |-> f.ClusterName,
     ResourceGroupName |-> f.ResourceGroupName,
     TenantID |-> f.TenantID, SubscriptionID |-> f.SubscriptionID,
     ClientID |-> f.ClientID, ClientSecret |-> f.ClientSecret,
     ApplicationName |-> f.ApplicationName, WorkerPools |-> pools]

\* The environment variables that carry the sensitive parts.
clientIDEnv == "LOKOMOTIVE_AKS_CLIENT_ID"

clientSecretEnv == "LOKOMOTIVE_AKS_CLIENT_SECRET"

subscriptionIDEnv == "LOKOMOTIVE_AKS_SUBSCRIPTION_ID"

tenantIDEnv == "LOKOMOTIVE_AKS_TENANT_ID"

Envs == [{clientIDEnv, clientSecretEnv, subscriptionIDEnv, tenantIDEnv} -> Strs]

\* The environment with all four variables set, or none.
EvenEnvs == {e \in Envs : \A v, w \in DOMAIN e : e[v] = e[w]}

\* os.Getenv
Getenv(env, name) == env[name]

\* hcl.Diagnostic: the summary, and the pool or field its text names.
Diagnostic(summary, subject) == [summary |-> summary, subject |-> subject]

\* The orders in which a range over the map of required fields may run.
RequiredFields == {"AssetDir", "ClusterName", "ResourceGroupName"}

Orders == {s \in [1..3 -> RequiredFields] : \A i, j \in 1..3 : s[i] = s[j] => i = j}

\* checkNotEmptyWorkers that accepts a cluster without worker pools.
checkNotEmptyWorkersLenient(cfg) == <<>>

checkNotEmptyWorkers(cfg) ==
    IF Len(cfg.WorkerPools) = 0
    THEN <<Diagnostic("At least one worker pool must be defined", "")>>
    ELSE <<>>

\* The loop of checkWorkerPoolNamesUnique from pool i on, dup holding the
\* names seen so far.
RECURSIVE duplicated(_, _, _)
duplicated(pools, i, dup) ==
    IF i > Len(pools) THEN <<>>
    ELSE IF pools[i].Name \notin dup
         THEN duplicated(pools, i + 1, dup \cup {pools[i].Name})
         ELSE <<Diagnostic("Worker pool names should be unique", pools[i].Name)>>
              \o duplicated(pools, i + 1, dup)

\* checkWorkerPoolNamesUnique that reports a name that occurs again once for
\* every pool that has it.
checkWorkerPoolNamesUniqueFlaggingAll(cfg) ==
    LET again == SelectSeq(cfg.WorkerPools,
                           LAMBDA w : \E i, j \in DOMAIN cfg.WorkerPools :
                                        /\ i # j
                                        /\ cfg.WorkerPools[i].Name = w.Name
                                        /\ cfg.WorkerPools[j].Name = w.Name)
    IN  [i \in DOMAIN again |->
            Diagnostic("Worker pool names should be unique", again[i].Name)]

checkWorkerPoolNamesUnique(cfg) == duplicated(cfg.WorkerPools, 1, {})

\* The body of the loop of checkWorkerPools for the pool w.
checkWorkerPool(w) ==
    (IF w.VMSize = "" THEN <<Diagnostic("VMSize field can't be empty", w.Name)>>
                      ELSE <<>>)
    \o (IF w.Count <= 0 THEN <<Diagnostic("count must be bigger than 0", w.Name)>>
                        ELSE <<>>)

\* The diagnostics of the pools from i on, in order.
RECURSIVE poolDiagnostics(_, _)
poolDiagnostics(pools, i) ==
    IF i > Len(pools) THEN <<>>
    ELSE checkWorkerPool(pools[i]) \o poolDiagnostics(pools, i + 1)

\* checkWorkerPools that accepts a pool with count 0.
checkWorkerPoolsAllowingZero(cfg) ==
    LET RECURSIVE from(_)
        from(i) ==
            IF i > Len(cfg.WorkerPools) THEN <<>>
            ELSE (IF cfg.WorkerPools[i].VMSize = ""
                  THEN <<Diagnostic("VMSize field can't be empty",
                                    cfg.WorkerPools[i].Name)>>
                  ELSE <<>>)
                 \o (IF cfg.WorkerPools[i].Count < 0
                     THEN <<Diagnostic("count must be bigger than 0",
                                       cfg.WorkerPools[i].Name)>>
                     ELSE <<>>)
                 \o from(i + 1)
    IN  from(1)

checkWorkerPools(cfg) == poolDiagnostics(cfg.WorkerPools, 1)

\* The diagnostics of the required fields that are empty, in the order the
\* range over the map visits them.
RECURSIVE emptyFields(_, _, _)
emptyFields(cfg, order, i) ==
    IF i > Len(order) THEN <<>>
    ELSE (IF cfg[order[i]] = ""
          THEN <<Diagnostic("field can't be empty", order[i])>>
          ELSE <<>>)
         \o emptyFields(cfg, order, i + 1)

checkRequiredFields(cfg, env, order) ==
    (IF cfg.SubscriptionID = "" /\ Getenv(env, subscriptionIDEnv) = ""
     THEN <<Diagnostic("cannot find the Azure subscription ID", "SubscriptionID")>>
     ELSE <<>>)
    \o (IF cfg.TenantID = "" /\ Getenv(env, tenantIDEnv) = ""
        THEN <<Diagnostic("cannot find the Azure client ID", "TenantID")>>
        ELSE <<>>)
    \o emptyFields(cfg, order, 1)

checkCredentials(cfg, env) ==
    IF cfg.ApplicationName # ""
    THEN (IF cfg.ClientID # ""
          THEN <<Diagnostic("ClientID and ApplicationName are mutually exclusive", "")>>
          ELSE <<>>)
         \o (IF cfg.ClientSecret # ""
             THEN <<Diagnostic("ClientSecret and ApplicationName are mutually exclusive", "")>>
             ELSE <<>>)
    ELSE (IF cfg.ClientSecret = "" /\ Getenv(env, clientSecretEnv) = ""
          THEN <<Diagnostic("cannot find the Azure client secret", "ClientSecret")>>
          ELSE <<>>)
         \o (IF cfg.ClientID = "" /\ Getenv(env, clientIDEnv) = ""
             THEN <<Diagnostic("cannot find the Azure client ID", "ClientID")>>
             ELSE <<>>)

\* validate that returns the diagnostics of the first check that has any.
validateFirstFailure(cfg, env, order) ==
    IF checkNotEmptyWorkers(cfg) # <<>> THEN checkNotEmptyWorkers(cfg)
    ELSE IF checkWorkerPoolNamesUnique(cfg) # <<>> THEN checkWorkerPoolNamesUnique(cfg)
    ELSE IF checkWorkerPools(cfg) # <<>> THEN checkWorkerPools(cfg)
    ELSE IF checkCredentials(cfg, env) # <<>> THEN checkCredentials(cfg, env)
    ELSE checkRequiredFields(cfg, env, order)

validate(cfg, env, order) ==
    checkNotEmptyWorkers(cfg)
    \o checkWorkerPoolNamesUnique(cfg)
    \o checkWorkerPools(cfg)
    \o checkCredentials(cfg, env)
    \o checkRequiredFields(cfg, env, order)

\* A field that is empty in the configuration is read from the environment.
OrEnv(value, env, name) == IF value = "" THEN Getenv(env, name) ELSE value

\* NewConfig(b, ctx): in.body tells whether b is nil, cannot be decoded, or
\* decodes to in.cfg.
NewConfig(in, order) ==
    IF in.body = "nil" THEN [config |-> <<>>, diags |-> <<>>]
    ELSE IF in.body = "undecodable"
         THEN [config |-> <<>>, diags |-> <<Diagnostic("decode", "")>>]
         ELSE IF Len(validate(in.cfg, in.env, order)) # 0
              THEN [config |-> <<>>, diags |-> validate(in.cfg, in.env, order)]
              ELSE [config |->
                       <<[in.cfg EXCEPT
                            !.ClientSecret = OrEnv(@, in.env, clientSecretEnv),
                            !.SubscriptionID = OrEnv(@, in.env, subscriptionIDEnv),
                            !.ClientID = OrEnv(@, in.env, clientIDEnv),
                            !.TenantID = OrEnv(@, in.env, tenantIDEnv)]>>,
                    diags |-> <<>>]

\* The calls: every combination of fields and environment with at most one
\* worker pool; every list of worker pools that have a VM size, with the
\* required fields and the environment set or missing together; a body that
\* is nil or cannot be decoded.
InitAKS ==
    /\ ApplyIdle
    /\ DeleteIdle
    /\ PollIdle
    /\ KubeIdle
    /\ RunDeleteIdle
    /\ NamespaceIdle
    /\ aksPc = "start"
    /\ aksConfig = <<>>
    /\ aksDiags = <<>>
    /\ \/ \E f \in Fields, pools \in SeqsUpTo(WorkerPools, 1), env \in Envs :
            aksInput = [body |-> "decoded", cfg |-> WithPools(f, pools), env |-> env]
       \/ \E f \in EvenFields, pools \in SeqsUpTo(SizedPools, MaxPools), env \in EvenEnvs :
            aksInput = [body |-> "decoded", cfg |-> WithPools(f, pools), env |-> env]
       \/ \E b \in {"nil", "undecodable"}, f \in EvenFields, env \in EvenEnvs :
            aksInput = [body |-> b, cfg |-> WithPools(f, <<>>), env |-> env]

\* One call of NewConfig.
CreateConfig ==
    /\ aksPc = "start"
    /\ \E order \in Orders :
        /\ aksConfig' = NewConfig(aksInput, order).config
        /\ aksDiags' = NewConfig(aksInput, order).diags
    /\ aksPc' = "returned"
    /\ UNCHANGED aksInput
    /\ UNCHANGED notAKSVars

NextAKS == CreateConfig

SpecAKS == InitAKS /\ [][NextAKS]_vars

-----------------------------------------------------------------------------
(* The kubeconfig path: kubeconfigPath and getKubeconfig *)

\* A path is the sequence of its parts: "~", the separator "/" and names;
\* the empty string is <<>>.
defaultKubeconfigPath == <<"~", "/", ".kube/config">>

\* What the --kubeconfig-file flag and the KUBECONFIG variable may hold:
\* nothing, an absolute path, a path below the home directory, a name that
\* starts with ~, a relative path.
PathsOf(name) == {<<>>, <<"/", name>>, <<"~", "/", name>>, <<"~", name>>, <<name>>}

AssetDirs == {<<>>, <<"/", "a">>, <<"~", "/", "a">>, <<"a", "/">>}

\* The home directory homedir.Dir finds; <<>>: it finds none and fails.
Homes == {<<>>, <<"/", "h">>}

KubeInputs ==
    [flag : PathsOf("f"), assetDir : AssetDirs, assetErr : BOOLEAN,
     env : PathsOf("e"), home : Homes]

\* filepath.Join(dir, rest) for a directory that is not empty.
Join(dir, rest) ==
    IF dir[Len(dir)] = "/" THEN dir \o rest ELSE dir \o <<"/">> \o rest

assetsKubeconfig(assetDir) == Join(assetDir, <<"cluster-assets/auth/kubeconfig">>)

\* assetsKubeconfigPath: the asset directory comes from the cluster
\* configuration, which may fail to load (getAssetDir).
assetsKubeconfigPath(in) ==
    IF in.assetErr THEN [path |-> <<>>, err |-> "cannot load config"]
    ELSE IF in.assetDir # <<>>
         THEN [path |-> assetsKubeconfig(in.assetDir), err |-> "nil"]
         ELSE [path |-> <<>>, err |-> "nil"]

\* pickString that returns the last string that is not empty.
RECURSIVE pickStringLast(_)
pickStringLast(options) ==
    IF options = <<>> THEN <<>>
    ELSE IF options[Len(options)] # <<>> THEN options[Len(options)]
         ELSE pickStringLast(SubSeq(options, 1, Len(options) - 1))

\* pickString returns the first string that is not empty.
RECURSIVE pickString(_)
pickString(options) ==
    IF options = <<>> THEN <<>>
    ELSE IF Head(options) # <<>> THEN Head(options)
         ELSE pickString(Tail(options))

\* homedir.Expand: a path that does not start with ~ is returned as it is;
\* ~ followed by anything but a separator is an error, and so is a home
\* directory that cannot be found.
Expand(path, home) ==
    IF Len(path) = 0 THEN [path |-> path, err |-> "nil"]
    ELSE IF path[1] # "~" THEN [path |-> path, err |-> "nil"]
    ELSE IF Len(path) > 1 /\ path[2] # "/"
         THEN [path |-> <<>>, err |-> "cannot expand user-specific home dir"]
    ELSE IF home = <<>> THEN [path |-> <<>>, err |-> "no home directory"]
    ELSE [path |-> home \o Tail(path), err |-> "nil"]

\* expandKubeconfigPath: the path as it was if the expansion fails.
expandKubeconfigPath(path, home) ==
    IF Expand(path, home).err = "nil" THEN Expand(path, home).path ELSE path

\* getKubeconfig
getKubeconfig(in) ==
    IF assetsKubeconfigPath(in).err # "nil"
    THEN [path |-> <<>>, err |-> "reading kubeconfig path from configuration failed"]
    ELSE [path |-> expandKubeconfigPath(
                       pickString(<<in.flag, assetsKubeconfigPath(in).path,
                                    in.env, defaultKubeconfigPath>>), in.home),
          err |-> "nil"]

\* kubeconfigPath(assetDir)
kubeconfigPath(in) ==
    LET assetPath == IF in.assetDir # <<>>
                     THEN Join(in.assetDir, <<"cluster-assets/auth/kubeconfig">>)
                     ELSE <<>>
        paths == <<in.flag, assetPath, in.env, defaultKubeconfigPath>>
        first == {i \in DOMAIN paths : /\ paths[i] # <<>>
                                       /\ \A j \in 1..(i - 1) : paths[j] = <<>>}
        selected == IF first = {} THEN <<>> ELSE paths[CHOOSE i \in first : TRUE]
    IN  IF Expand(selected, in.home).err = "nil"
        THEN Expand(selected, in.home).path
        ELSE selected

InitKubeconfig ==
    /\ ApplyIdle
    /\ DeleteIdle
    /\ PollIdle
    /\ AKSIdle
    /\ RunDeleteIdle
    /\ NamespaceIdle
    /\ kubeInput \in KubeInputs
    /\ kubePc = "start"
    /\ kubePath = <<>>
    /\ kubeErr = "nil"

\* A call of getKubeconfig.
GetKubeconfig ==
    /\ kubePc = "start"
    /\ kubePc' = "returned"
    /\ kubePath' = getKubeconfig(kubeInput).path
    /\ kubeErr' = getKubeconfig(kubeInput).err
    /\ UNCHANGED kubeInput
    /\ UNCHANGED notKubeVars

\* A call of kubeconfigPath with an asset directory that was read before.
KubeconfigPath ==
    /\ kubePc = "start"
    /\ ~kubeInput.assetErr
    /\ kubePc' = "returned"
    /\ kubePath' = kubeconfigPath(kubeInput)
    /\ kubeErr' = "nil"
    /\ UNCHANGED kubeInput
    /\ UNCHANGED notKubeVars

NextKubeconfig ==
    \/ GetKubeconfig
    \/ KubeconfigPath

SpecKubeconfig == InitKubeconfig /\ [][NextKubeconfig]_vars

-----------------------------------------------------------------------------
(* lokoctl component delete: runDelete and deleteComponents *)

\* The names `lokoctl component delete` may be given: the components that
\* exist and one that does not.
ArgNames == DeleteNames \cup {"nope"}

\* The components listed in the configuration.
ConfiguredLists == {<<>>, <<"contour">>, <<"rook", "contour">>, <<"contour", "nope">>}

\* components.Get: an error for a name that is no component.
Get(name) == IF name \in DeleteNames THEN "nil" ELSE "no component with name"

\* The names runDelete works on: the arguments, or all configured components
\* when there is no argument.
componentsToDelete(args, configured) == IF Len(args) = 0 THEN configured ELSE args

InitRunDelete ==
    /\ ApplyIdle
    /\ PollIdle
    /\ AKSIdle
    /\ KubeIdle
    /\ NamespaceIdle
    /\ installed \in [DeleteNames -> ReleaseStates]
    /\ namespaces \in [DeleteNames -> ReleaseStates]
    /\ deletes = <<>>
    /\ delArgs \in SeqsUpTo(ArgNames, MaxDeletes)
    /\ delConfigured \in ConfiguredLists
    /\ delConfirm \in BOOLEAN
    /\ delDeleteNS \in BOOLEAN
    /\ delPc = "readConfig"
    /\ delOutcome = "running"
    /\ delTyped = <<>>
    /\ delObjects = <<>>
    /\ delIdx = 1

\* contextLogger.Fatal ends the run.
DeleteFatal == delPc' = "exit" /\ delOutcome' = "fatal"

\* config.Read, the check for a cluster block and platform.NewCluster.
DeleteReadConfig ==
    /\ delPc = "readConfig"
    /\ \E r \in {"ok", "diags", "no cluster", "cluster diags"} :
        IF r = "ok"
        THEN delPc' = "resolve" /\ UNCHANGED delOutcome
        ELSE DeleteFatal
    /\ UNCHANGED <<delArgs, delConfigured, delConfirm, delDeleteNS, delTyped,
                   delObjects, delIdx>>
    /\ UNCHANGED deleteVars
    /\ UNCHANGED notRunDeleteVars

\* The loop over componentsToDelete that fetches every component object.
ResolveComponents ==
    /\ delPc = "resolve"
    /\ LET names == componentsToDelete(delArgs, delConfigured)
       IN  IF \E i \in DOMAIN names : Get(names[i]) # "nil"
           THEN DeleteFatal /\ UNCHANGED delObjects
           ELSE delPc' = "confirm" /\ delObjects' = names /\ UNCHANGED delOutcome
    /\ UNCHANGED <<delArgs, delConfigured, delConfirm, delDeleteNS, delTyped, delIdx>>
    /\ UNCHANGED deleteVars
    /\ UNCHANGED notRunDeleteVars

\* A confirmation step that goes on whatever the user types.
ConfirmDeleteIgnoringAnswer ==
    /\ delPc = "confirm"
    /\ IF delConfirm
       THEN UNCHANGED delTyped
       ELSE \E line \in Lines : delTyped' = line
    /\ delPc' = "delete"
    /\ UNCHANGED <<delArgs, delConfigured, delConfirm, delDeleteNS, delOutcome,
                   delObjects, delIdx>>
    /\ UNCHANGED deleteVars
    /\ UNCHANGED notRunDeleteVars

\* The confirmation, skipped with --confirm, and the kubeconfig path, which
\* getKubeconfig(c.AssetDir()) returns without an error.
ConfirmDelete ==
    /\ delPc = "confirm"
    /\ IF delConfirm
       THEN delPc' = "delete" /\ UNCHANGED <<delTyped, delOutcome>>
       ELSE \E line \in Lines :
               /\ delTyped' = line
               /\ IF askForConfirmation(line)
                  THEN delPc' = "delete" /\ UNCHANGED delOutcome
                  ELSE delPc' = "exit" /\ delOutcome' = "cancelled"
    /\ UNCHANGED <<delArgs, delConfigured, delConfirm, delDeleteNS, delObjects, delIdx>>
    /\ UNCHANGED deleteVars
    /\ UNCHANGED notRunDeleteVars

\* The call of deleteHelmRelease for the component at delIdx with the answers
\* env, and what it leaves in the cluster.
DeleteOne(env) ==
    LET name == delObjects[delIdx]
        r == deleteHelmRelease(installed[name], namespaces[name], delDeleteNS, env)
    IN  /\ installed' = [installed EXCEPT ![name] = r.release]
        /\ namespaces' = [namespaces EXCEPT ![name] = r.namespace]
        /\ deletes' = Append(deletes,
                             [name |-> name,
                              deleteNS |-> delDeleteNS,
                              before |-> installed[name],
                              ops |-> r.ops,
                              err |-> r.err,
                              after |-> r.release,
                              nsBefore |-> namespaces[name],
                              nsAfter |-> r.namespace])

\* An iteration of deleteComponents that goes on after an error.
DeleteComponentContinuing ==
    /\ delPc = "delete"
    /\ delIdx <= Len(delObjects)
    /\ \E env \in Answers(installed[delObjects[delIdx]], namespaces[delObjects[delIdx]]) :
        DeleteOne(env)
    /\ delIdx' = delIdx + 1
    /\ UNCHANGED <<delArgs, delConfigured, delConfirm, delDeleteNS, delTyped,
                   delObjects, delPc, delOutcome>>
    /\ UNCHANGED notRunDeleteVars

\* One iteration of the loop of deleteComponents: an error of
\* deleteHelmRelease is returned to runDelete, which ends with Fatal.
DeleteComponent ==
    /\ delPc = "delete"
    /\ delIdx <= Len(delObjects)
    /\ \E env \in Answers(installed[delObjects[delIdx]], namespaces[delObjects[delIdx]]) :
        /\ DeleteOne(env)
        /\ IF deleteHelmRelease(installed[delObjects[delIdx]],
                                namespaces[delObjects[delIdx]], delDeleteNS, env).err # "nil"
           THEN DeleteFatal /\ UNCHANGED delIdx
           ELSE delIdx' = delIdx + 1 /\ UNCHANGED <<delPc, delOutcome>>
    /\ UNCHANGED <<delArgs, delConfigured, delConfirm, delDeleteNS, delTyped, delObjects>>
    /\ UNCHANGED notRunDeleteVars

\* The loop is over: deleteComponents returns nil and runDelete ends.
DeleteComponentsReturn ==
    /\ delPc = "delete"
    /\ delIdx > Len(delObjects)
    /\ delPc' = "exit"
    /\ delOutcome' = "success"
    /\ UNCHANGED <<delArgs, delConfigured, delConfirm, delDeleteNS, delTyped,
                   delObjects, delIdx>>
    /\ UNCHANGED deleteVars
    /\ UNCHANGED notRunDeleteVars

NextRunDelete ==
    \/ DeleteReadConfig
    \/ ResolveComponents
    \/ ConfirmDelete
    \/ DeleteComponent
    \/ DeleteComponentsReturn

SpecRunDelete == InitRunDelete /\ [][NextRunDelete]_vars

-----------------------------------------------------------------------------
(* k8sutil.UpdateNamespace *)

\* The text Lokomotive's own label and annotation keys carry.
Lokomotive == "lokomotive.kinvolk.io"

\* A key is the sequence of its pieces, so that the text may stand at the
\* start of a key or inside it.
NameKey == <<Lokomotive, "/name">>

InnerKey == <<"my.", Lokomotive, "/x">>

UserKey == <<"app">>

LabelKeys == {NameKey, InnerKey, UserKey}

AnnotationKeys == {NameKey, UserKey}

Values == {"a", "b"}

\* map[string]string values with keys from K.
Maps(K) == UNION {[D -> Values] : D \in SUBSET K}

\* A Go map passed in by the caller: nil when the field was left unset.
NilMap == [nil |-> TRUE, m |-> <<>>]

GoMaps(K) == {NilMap} \cup {[nil |-> FALSE, m |-> f] : f \in Maps(K)}

\* type Namespace struct, with the namespace as the cluster holds it.
NamespaceInputs ==
    [Name : {<<>>, <<"gangway">>},
     Labels : GoMaps(LabelKeys),
     Annotations : GoMaps(AnnotationKeys),
     existing : [labels : Maps(LabelKeys), annotations : Maps(AnnotationKeys)]]

\* strings.Contains(key, text)
Contains(key, text) == \E i \in DOMAIN key : key[i] = text

\* The deletion loop with strings.HasPrefix in the place of strings.Contains.
deletePrefixedKeys(existing) ==
    [k \in {k \in DOMAIN existing : k[1] # Lokomotive} |-> existing[k]]

\* for key := range existing { if strings.Contains(key, ...) { delete(existing, key) } }
deleteLokomotiveKeys(existing) ==
    [k \in {k \in DOMAIN existing : ~Contains(k, Lokomotive)} |-> existing[k]]

\* labels := namespace.Labels; for key, value := range existing { labels[key] = value }
\* An assignment to an entry of a nil map panics.
mergeInto(desired, existing) ==
    IF desired.nil /\ DOMAIN existing # {}
    THEN [panic |-> TRUE, nil |-> TRUE, m |-> <<>>]
    ELSE [panic |-> FALSE,
          nil |-> desired.nil,
          m |-> [k \in DOMAIN desired.m \cup DOMAIN existing |->
                    IF k \in DOMAIN existing THEN existing[k] ELSE desired.m[k]]]

\* What NewClientset, Namespaces().Get and Namespaces().Update answer.  An
\* update of a namespace is not answered with AlreadyExists: the API server
\* gives that answer to a request that creates an object.
APIAnswers == [clientset : {"ok", "error"}, get : {"ok", "error"}, update : {"ok", "error"}]

\* apierrors.IsAlreadyExists(err)
IsAlreadyExists(err) == err = "already exists"

\* UpdateNamespace(namespace, kubeconfig) on a cluster holding object, with
\* the API answering as in answers: the error returned (or the panic) and
\* the namespace the cluster holds afterwards.
UpdateNamespace(namespace, object, answers) ==
    IF answers.clientset # "ok" THEN [err |-> "creating clientset", object |-> object]
    ELSE IF namespace.Name = <<>> THEN [err |-> "empty name", object |-> object]
    ELSE IF answers.get # "ok" THEN [err |-> "get", object |-> object]
    ELSE LET existingLabels == deleteLokomotiveKeys(object.labels)
             existingAnnotations == deleteLokomotiveKeys(object.annotations)
             labels == mergeInto(namespace.Labels, existingLabels)
             annotations == mergeInto(namespace.Annotations, existingAnnotations)
         IN  IF labels.panic \/ annotations.panic
             THEN [err |-> "panic", object |-> object]
             ELSE IF answers.update # "ok" /\ ~IsAlreadyExists(answers.update)
                  THEN [err |-> "update", object |-> object]
                  ELSE [err |-> "nil",
                        object |-> IF answers.update = "ok"
                                   THEN [labels |-> labels.m, annotations |-> annotations.m]
                                   ELSE object]

InitNamespace ==
    /\ ApplyIdle
    /\ DeleteIdle
    /\ PollIdle
    /\ AKSIdle
    /\ KubeIdle
    /\ RunDeleteIdle
    /\ nsInput \in NamespaceInputs
    /\ nsPc = "start"
    /\ nsObject = nsInput.existing
    /\ nsErr = "nil"

\* One call of UpdateNamespace.
UpdateNamespaceCall ==
    /\ nsPc = "start"
    /\ \E answers \in APIAnswers :
        LET r == UpdateNamespace(nsInput, nsObject, answers) IN
        /\ nsObject' = r.object
        /\ nsErr' = r.err
    /\ nsPc' = "returned"
    /\ UNCHANGED nsInput
    /\ UNCHANGED notNamespaceVars

NextNamespace == UpdateNamespaceCall

SpecNamespace == InitNamespace /\ [][NextNamespace]_vars

-----------------------------------------------------------------------------
(* Properties of the execution plan loop *)

ThePlan == TerraformExecutionPlan(c)

StepOps == {"Hook", "Execute"}

\* Positions in the log of the calls with operation op.
CallsOf(op) == {k \in DOMAIN calls : calls[k].op = op}

\* Execute of plan step i has returned success before position k of the log.
ExecutedBefore(i, k) ==
    \E m \in 1..(k - 1) : calls[m].op = "Execute" /\ calls[m].step = i /\ calls[m].ok

\* The hook of plan step i has returned success before position k of the log.
HookedBefore(i, k) ==
    \E m \in 1..(k - 1) : calls[m].op = "Hook" /\ calls[m].step = i /\ calls[m].ok

\* C1: the steps of the execution plan run strictly in list order: the hook
\* or the Execute of step j starts only after the Execute of every step
\* i < j has returned success, the step numbers along the log never go back,
\* and a step that has a hook is executed only after its hook has succeeded.
C1_StepsInOrder ==
    /\ \A k \in DOMAIN calls :
        calls[k].op \in StepOps =>
            /\ \A i \in 1..(calls[k].step - 1) : ExecutedBefore(i, k)
            /\ (calls[k].op = "Execute" /\ ThePlan[calls[k].step].PreExecutionHook)
                   => HookedBefore(calls[k].step, k)
            /\ calls[k].op = "Hook" => ThePlan[calls[k].step].PreExecutionHook
    /\ \A k, m \in DOMAIN calls :
        (k < m /\ calls[k].op \in StepOps /\ calls[m].op \in StepOps)
            => /\ calls[k].step <= calls[m].step
               /\ (calls[k].step = calls[m].step
                       => calls[k].op = "Hook" /\ calls[m].op = "Execute")

\* A two-step plan whose second step has a hook has been executed to its end.
C1_Witness ==
    /\ Len(ThePlan) = 2
    /\ ThePlan[2].PreExecutionHook
    /\ \E k \in CallsOf("Execute") : calls[k].step = 2 /\ calls[k].ok

\* C2: when the hook of a step returns an error, the Args of that step are
\* never passed to the executor, no hook or Args of a later step is run (the
\* failed hook is the last call of the run) and the run has ended as a failure
\* that reports the hook of that step.
C2_HookFailureHalts ==
    \A k \in CallsOf("Hook") :
        ~calls[k].ok =>
            /\ k = Len(calls)
            /\ \A m \in CallsOf("Execute") : calls[m].step < calls[k].step
            /\ calls[k].step \notin applied
            /\ outcome = "fatal"
            /\ fatal = [at |-> "hook", step |-> calls[k].step]

\* The hook of step 1 of a two-step plan has failed.
C2_Witness ==
    /\ Len(ThePlan) = 2
    /\ \E k \in CallsOf("Hook") : calls[k].step = 1 /\ ~calls[k].ok

\* C3: when the hook or the Execute of a plan step fails, the run ends as a
\* failure there: the failed call is the last call of the run, so no later
\* plan step, no verification, no control plane upgrade and no component
\* apply is started.
C3_PlanFailureAborts ==
    \A k \in DOMAIN calls :
        (calls[k].op \in StepOps /\ ~calls[k].ok) =>
            /\ k = Len(calls)
            /\ outcome = "fatal"
            /\ pc = "exit"
            /\ fatal.step = calls[k].step
            /\ releases = <<>>
            /\ \A ch \in AllCharts : release[ch] = "unobserved"

\* Execute of step 1 of a two-step plan has failed.
C3_Witness ==
    /\ Len(ThePlan) = 2
    /\ \E k \in CallsOf("Execute") : calls[k].step = 1 /\ ~calls[k].ok

\* The applied steps are the first n steps of the plan, for some n.
AppliedIsPrefix == \E n \in 0..Len(ThePlan) : applied = 1..n

\* Every Execute passes the Args of a plan step, and no step is executed twice.
OnlyPlanStepsExecuted ==
    /\ \A k \in CallsOf("Execute") :
        /\ calls[k].step \in 1..Len(ThePlan)
        /\ calls[k].args = ThePlan[calls[k].step].Args
    /\ \A k, m \in CallsOf("Execute") : calls[k].step = calls[m].step => k = m

\* After a failure at step i exactly the steps before i are applied.
FailedStepKeepsEarlier ==
    (outcome = "fatal" /\ fatal.at \in {"hook", "execute"}) => applied = 1..(fatal.step - 1)

\* C4: at every point of a run the applied plan steps are a prefix of the
\* execution plan and the set never shrinks; after a failure at step i the
\* steps 1..i-1 stay applied, and the executor is given nothing but the Args
\* of the plan's steps, each at most once (no undo, destroy or retry).
C4_AppliedPrefixNeverShrinks ==
    [][/\ applied \subseteq applied'
       /\ AppliedIsPrefix'
       /\ OnlyPlanStepsExecuted'
       /\ FailedStepKeepsEarlier']_vars

\* Execute of step 2 has failed and step 1 is still applied.
C4_Witness ==
    /\ outcome = "fatal"
    /\ fatal = [at |-> "execute", step |-> 2]
    /\ applied = {1}

-----------------------------------------------------------------------------
(* Properties of the existence check and the confirmation *)

\* The prompt has been answered.
Answered == (\E k \in CallsOf("Plan") : calls[k].ok) /\ pc # "confirm"

LaterPhaseOps == {"Verify", "Upgrade", "ApplyComponents", "Apply"}

\* C5: when the cluster exists and --confirm was not given, no plan step is
\* executed unless Plan() has succeeded before and the user has answered
\* exactly "yes"; a failed Plan is fatal; any other answer ends the run as
\* cancelled, with no step, no verification, no upgrade and no component.
C5_StepsOnlyAfterExactYes ==
    (exists /\ ~confirm) =>
        /\ \A k \in DOMAIN calls :
            calls[k].op \in StepOps =>
                /\ \E m \in 1..(k - 1) : calls[m].op = "Plan" /\ calls[m].ok
                /\ typed = <<"yes">>
        /\ \A k \in CallsOf("Plan") :
            ~calls[k].ok => k = Len(calls) /\ outcome = "fatal"
        /\ (Answered /\ typed # <<"yes">>) =>
            /\ outcome = "cancelled"
            /\ \A k \in DOMAIN calls : calls[k].op \notin StepOps \cup LaterPhaseOps

\* C6: clusterExists reports true exactly when the output query returned a
\* non-empty set of outputs; when the query fails it is the last call of the
\* run (no Plan, no plan step, no later phase) and the run is fatal.
C6_ExistsIffOutputs ==
    /\ (\E k \in CallsOf("Output") : calls[k].ok) => (exists <=> o # {})
    /\ \A k \in CallsOf("Output") :
        ~calls[k].ok =>
            /\ k = Len(calls)
            /\ outcome = "fatal"
            /\ fatal.at = "checking if cluster exists"
            /\ applied = {}

\* The query returned a single output and the cluster counts as existing.
C6_Witness == o = {"kubeconfig"} /\ exists /\ pc = "steps"

-----------------------------------------------------------------------------
(* Properties of the phases after the plan *)

PlanComplete == applied = 1..Len(ThePlan)

VerifiedOK == \E k \in CallsOf("Verify") : calls[k].ok

\* C7: verification starts only after every plan step has been executed with
\* success; once the plan is complete verification has started or is the
\* step the run takes next; it is called once, and every control plane
\* upgrade and every component apply comes after it has returned success.
C7_VerifyAfterPlan ==
    /\ \A k \in CallsOf("Verify") : \A i \in 1..Len(ThePlan) : ExecutedBefore(i, k)
    /\ PlanComplete => (CallsOf("Verify") # {} \/ (pc = "verify" /\ ENABLED VerifyCluster))
    /\ Cardinality(CallsOf("Verify")) <= 1
    /\ \A k \in DOMAIN calls :
        calls[k].op \in {"Upgrade", "ApplyComponents"} =>
            \E m \in 1..(k - 1) : calls[m].op = "Verify" /\ calls[m].ok

\* A two-step plan was executed, verified, and a chart upgrade has followed.
C7_Witness ==
    /\ Len(ThePlan) = 2
    /\ VerifiedOK
    /\ CallsOf("Upgrade") # {}

\* C8: when verification fails, the failure is reported as the fatal error of
\* the run, nothing follows it (no chart upgraded, no component applied), and
\* the plan steps stay applied with nothing but the plan's steps executed.
C8_VerifyFailureHalts ==
    \A k \in CallsOf("Verify") :
        ~calls[k].ok =>
            /\ k = Len(calls)
            /\ outcome = "fatal"
            /\ fatal.at = "verify cluster"
            /\ applied = 1..Len(ThePlan)
            /\ OnlyPlanStepsExecuted
            /\ releases = <<>>
            /\ \A ch \in AllCharts : release[ch] = "unobserved"

\* Verification has failed after a two-step plan.
C8_Witness ==
    /\ Len(ThePlan) = 2
    /\ \E k \in CallsOf("Verify") : ~calls[k].ok

\* C9 as stated, read on the finished runs that executed their whole plan:
\* control plane charts were upgraded in the run if and only if the cluster
\* existed before the plan was executed and the platform is not managed.
C9_UpgradesIffExistedUnmanaged ==
    (pc = "exit" /\ PlanComplete) =>
        (CallsOf("Upgrade") # {} <=> (exists /\ ~Managed(c)))

\* Some chart is left after the kubelet filter.
SomeChartToUpgrade ==
    \E i \in DOMAIN ControlPlaneCharts(c) :
        ControlPlaneCharts(c)[i] # "kubelet" \/ upgradeKubelets

\* C9 (amended): control plane charts are upgraded in a run if and only if
\* the run passes cluster verification, the cluster existed before the plan
\* was executed (the outputs were queried before the first step), the
\* platform is not managed and a chart is left after the kubelet filter; an
\* upgrade never happens in the run that creates the cluster nor for a
\* managed platform, whatever --upgrade-kubelets is.
C9_UpgradesIffVerifiedExistedUnmanaged ==
    /\ CallsOf("Upgrade") # {} => (exists /\ o # {} /\ ~Managed(c))
    /\ \A k \in CallsOf("Output") : \A m \in DOMAIN calls :
        calls[m].op \in StepOps => k < m
    /\ pc \in {"components", "exit"} =>
        (CallsOf("Upgrade") # {}
            <=> (VerifiedOK /\ exists /\ ~Managed(c) /\ SomeChartToUpgrade))

\* A run has ended with success after upgrading control plane charts.
C9_Witness ==
    /\ outcome = "success"
    /\ CallsOf("Upgrade") # {}
    /\ upgradeKubelets

\* The charts upgradeComponent was called for, in the order of the calls.
Upgraded ==
    LET ups == SelectSeq(calls, LAMBDA e : e.op = "Upgrade")
    IN  [i \in 1..Len(ups) |-> ups[i].chart]

\* ControlPlaneCharts() without "kubelet", unless --upgrade-kubelets is set.
ExpectedReleases ==
    SelectSeq(ControlPlaneCharts(c), LAMBDA r : r # "kubelet" \/ upgradeKubelets)

IsPrefix(a, b) == Len(a) <= Len(b) /\ a = SubSeq(b, 1, Len(a))

\* The upgrade loop has run to its end.
UpgradePhaseDone ==
    /\ VerifiedOK /\ exists /\ ~Managed(c)
    /\ pc = "components" \/ outcome = "success" \/ fatal.at = "applying components"

\* C10: the control plane charts upgraded are those of ControlPlaneCharts(),
\* in the same order, with "kubelet" left out when --upgrade-kubelets is not
\* set and kept in its place when it is: the list the loop iterates is that
\* list, the charts upgraded so far are always its first entries, and when
\* the loop has run to its end they are the whole list.
C10_UpgradedAreFilteredCharts ==
    /\ IsPrefix(Upgraded, ExpectedReleases)
    /\ (pc = "upgrade" \/ Upgraded # <<>>) => releases = ExpectedReleases
    /\ UpgradePhaseDone => Upgraded = ExpectedReleases

\* All charts around a "kubelet" entry were upgraded and kubelet was left out.
C10_Witness ==
    /\ ControlPlaneCharts(c) = InsertAt(CommonControlPlaneCharts, Kubelet, 2)
    /\ ~upgradeKubelets
    /\ pc = "components"
    /\ Upgraded = CommonControlPlaneCharts

-----------------------------------------------------------------------------
(* Properties of the chart phases: control plane upgrade and components *)

\* The components applyComponents has applied or tried to, in the order of the calls.
AppliedComponents ==
    LET aps == SelectSeq(calls, LAMBDA e : e.op = "Apply")
    IN  [i \in 1..Len(aps) |-> aps[i].chart]

\* The run has passed verification and the control plane upgrade phase: no
\* upgrade has failed, and where the phase applies every chart is upgraded.
UpgradePhasePassed ==
    /\ VerifiedOK
    /\ \A k \in CallsOf("Upgrade") : calls[k].ok
    /\ (exists /\ ~Managed(c)) => Upgraded = ExpectedReleases

\* C11: with --skip-components no user component is ever applied, whatever
\* the configuration lists; without it, a run that has passed verification and
\* the control plane upgrade phase calls applyComponents with the configured
\* components (it is the step the run takes next, or it has been called with
\* them), and only a configuration without components leads to no call.
C11_SkipComponentsHonoured ==
    /\ skipComponents => CallsOf("ApplyComponents") = {} /\ CallsOf("Apply") = {}
    /\ (~skipComponents /\ UpgradePhasePassed) =>
        IF pc # "exit"
        THEN /\ pc \in {"controlplane", "components"}
             /\ pc = "components" => ENABLED ApplyComponents
        ELSE IF components = <<>>
             THEN CallsOf("ApplyComponents") = {} /\ outcome = "success"
             ELSE /\ \E k \in CallsOf("ApplyComponents") : calls[k].args = components
                  /\ AppliedComponents # <<>>
                  /\ AppliedComponents[1] = components[1]

\* A run with two components configured has upgraded charts and ended with
\* success under --skip-components.
C11_Witness ==
    /\ skipComponents
    /\ Len(components) = 2
    /\ CallsOf("Upgrade") # {}
    /\ outcome = "success"

\* C12: applyComponents is called at most once, with the components in the
\* order of the configuration and after every control plane chart upgrade of
\* the run has returned success; the components are applied one at a time in
\* that order: each apply starts after the one before it has returned
\* success, and a run that succeeds has applied all of them.
C12_ComponentsInOrderAfterUpgrades ==
    /\ Cardinality(CallsOf("ApplyComponents")) <= 1
    /\ \A k \in CallsOf("ApplyComponents") :
        /\ calls[k].args = components
        /\ (exists /\ ~Managed(c)) => Upgraded = ExpectedReleases
        /\ \A m \in CallsOf("Upgrade") : m < k /\ calls[m].ok
    /\ IsPrefix(AppliedComponents, components)
    /\ \A k \in CallsOf("Apply") :
        /\ \E m \in CallsOf("ApplyComponents") : m < k
        /\ \A m \in CallsOf("Upgrade") : m < k
        /\ \A j \in CallsOf("Apply") :
            j < k => calls[j].ok /\ calls[j].step + (k - j) = calls[k].step
    /\ (outcome = "success" /\ ~skipComponents) => AppliedComponents = components

\* Two components were applied after the control plane charts were upgraded.
C12_Witness ==
    /\ Len(components) = 2
    /\ CallsOf("Upgrade") # {}
    /\ AppliedComponents = components
    /\ outcome = "success"

\* C13: when upgradeComponent fails for chart k (in the install, the upgrade
\* or before them) the run ends there as a failure: the failed call is the
\* last call of the run, so no chart after k is upgraded and no component is
\* applied; when applyComponents fails the run ends as a failure, the failed
\* component being the last one applied.
C13_ChartPhasesFailFast ==
    /\ \A k \in CallsOf("Upgrade") :
        ~calls[k].ok =>
            /\ k = Len(calls)
            /\ outcome = "fatal"
            /\ pc = "exit"
            /\ fatal.step = calls[k].step
            /\ Len(Upgraded) = calls[k].step
            /\ CallsOf("ApplyComponents") = {} /\ CallsOf("Apply") = {}
    /\ \A k \in CallsOf("ApplyComponents") :
        ~calls[k].ok =>
            /\ outcome = "fatal"
            /\ pc = "exit"
            /\ fatal.at = "applying components"
    /\ \A k \in CallsOf("Apply") :
        ~calls[k].ok =>
            /\ k = Len(calls)
            /\ \E m \in CallsOf("ApplyComponents") : ~calls[m].ok

\* The upgrade of the second chart has failed in a run that has components to apply.
C13_Witness ==
    /\ ~skipComponents
    /\ components # <<>>
    /\ \E k \in CallsOf("Upgrade") : ~calls[k].ok /\ calls[k].step = 2

-----------------------------------------------------------------------------
(* Properties of the preparation: validation and the backend file *)

\* Operations on the Terraform executor that change state, and the chart phases.
MutatingOps == {"Init", "Plan", "Hook", "Execute", "Upgrade", "ApplyComponents", "Apply"}

\* C14: Validate is called once in a run; terraform init, plan and the plan
\* steps, and every Helm install or upgrade (control plane or component),
\* come after Validate has returned no error; when Validate returns an error
\* it is the last call of the run, which is fatal with none of them performed.
C14_ValidateBeforeMutation ==
    /\ Cardinality(CallsOf("Validate")) <= 1
    /\ \A k \in DOMAIN calls :
        calls[k].op \in MutatingOps =>
            \E m \in 1..(k - 1) : calls[m].op = "Validate" /\ calls[m].ok
    /\ helmCalls # <<>> => \E m \in CallsOf("Validate") : calls[m].ok
    /\ \A k \in CallsOf("Validate") :
        ~calls[k].ok =>
            /\ k = Len(calls)
            /\ \A m \in DOMAIN calls : calls[m].op \notin MutatingOps \cup {"Output"}
            /\ outcome = "fatal"
            /\ fatal.at = "cluster config validation"
            /\ applied = {}
            /\ helmCalls = <<>>
            /\ \A ch \in AllCharts : release[ch] = "unobserved"

\* Validate has returned an error.
C14_Witness ==
    /\ \E k \in CallsOf("Validate") : ~calls[k].ok
    /\ pc = "exit"

C33_NothingWrittenBeforeValidate ==
    /\ files # {} => \E k \in CallsOf("Validate") : calls[k].ok
    /\ (\E k \in CallsOf("Validate") : ~calls[k].ok) => files = {}

\* C34: when the existence check finds no outputs or --confirm is set, the
\* run never calls Plan, never stands at the preview or at the prompt, reads
\* no answer and is never cancelled; in every run Plan is called at most
\* once and no Plan follows a hook or an Execute of a plan step.
C34_NoPreviewWithoutNeed ==
    /\ (~exists \/ confirm) =>
        /\ CallsOf("Plan") = {}
        /\ pc \notin {"plan", "confirm"}
        /\ typed = <<>>
        /\ outcome # "cancelled"
    /\ Cardinality(CallsOf("Plan")) <= 1
    /\ \A k \in CallsOf("Plan") :
        \A m \in 1..Len(calls) : calls[m].op \in StepOps => k < m

\* An existing cluster applied with --confirm: the first step has been executed.
C34_Witness ==
    /\ exists
    /\ confirm
    /\ \E k \in CallsOf("Execute") : calls[k].step = 1 /\ calls[k].ok

BackendFile == <<"terraform", "backend.tf">>

\* r has nothing but white space.
Blank(r) == \A i \in DOMAIN r : IsSpace(r[i])

\* Where the run may end before the backend step has returned.
EarlyFailures ==
    {"diags", "no cluster", "cluster configuration", "backend configuration",
     "backend validation", "backend render", "expanding path",
     "writing Terraform files", "creating Terraform root directory",
     "writing backend file"}

\* The step that writes the backend file has returned without an error.
PastBackendStep ==
    /\ pc \notin {"readConfig", "createCluster", "backend", "assets", "writeBackend"}
    /\ ~(outcome = "fatal" /\ fatal.at \in EarlyFailures)

\* C15: terraform/backend.tf is written only when the rendered backend
\* configuration has something other than white space, and once the backend
\* step has returned the file is written if and only if it has; with an empty
\* or white-space rendering the step writes nothing, cannot fail, and the run
\* goes on to the validation.
C15_BackendFileIffRendered ==
    /\ BackendFile \in files => ~Blank(renderedBackend)
    /\ PastBackendStep => (BackendFile \in files <=> ~Blank(renderedBackend))
    /\ fatal.at = "writing backend file" => ~Blank(renderedBackend)
    /\ (pc = "writeBackend" /\ Blank(renderedBackend)) =>
        /\ outcome = "running"
        /\ ENABLED (WriteBackend /\ pc' = "validate" /\ files' = files)

\* A rendering of white space only: the run has reached the plan steps with
\* no backend file.
C15_Witness ==
    /\ renderedBackend = <<" ", "\n">>
    /\ pc = "steps"
    /\ BackendFile \notin files

-----------------------------------------------------------------------------
(* Properties of upgradeComponent: probe, install, upgrade *)

\* Positions of the Helm operation op in the last upgradeComponent call.
HelmCallsOf(op) == {i \in DOMAIN helmCalls : helmCalls[i].op = op}

\* What the history query of the last upgradeComponent call has answered.
Probed == helmCalls[1].result

\* C19: in an upgradeComponent call that has got to the probe, install is
\* invoked only when the probe has answered that the release does not exist:
\* never for a release that exists (whether or not its values are the desired
\* ones), never when the probe has failed, and for an absent release exactly
\* once, right after the probe and before the upgrade.
C19_InstallOnlyWhenAbsent ==
    helmCalls # <<>> =>
        /\ helmCalls[1].op = "history"
        /\ HelmCallsOf("history") = {1}
        /\ Probed \in {"stale", "current", "error"} => HelmCallsOf("install") = {}
        /\ Probed = "not found" =>
            /\ HelmCallsOf("install") = {2}
            /\ \A u \in HelmCallsOf("upgrade") : u > 2

\* A release that was missing has been installed and then upgraded.
C19_Witness ==
    helmCalls = <<HelmEvent("history", "not found"), HelmEvent("install", "ok"),
                  HelmEvent("upgrade", "ok")>>

\* C20: in an upgradeComponent call, upgrade is invoked exactly when the probe
\* has succeeded and the install was skipped (the release is there) or has
\* succeeded; it is then invoked once, as the last operation, also for a
\* release that already has the desired values, and never after an install
\* that has failed nor when the call has failed before or at the probe.
C20_UpgradeAfterInstallOrSkip ==
    helmCalls # <<>> =>
        /\ Cardinality(HelmCallsOf("upgrade")) <= 1
        /\ HelmCallsOf("upgrade") # {} <=>
            /\ Probed # "error"
            /\ \A i \in HelmCallsOf("install") : helmCalls[i].result = "ok"
        /\ \A u \in HelmCallsOf("upgrade") : u = Len(helmCalls)
        /\ Probed = "current" => HelmCallsOf("upgrade") # {}
        /\ \A i \in HelmCallsOf("install") :
            helmCalls[i].result = "error" => i = Len(helmCalls)

\* A release that already has the desired values has been upgraded.
C20_Witness ==
    helmCalls = <<HelmEvent("history", "current"), HelmEvent("upgrade", "ok")>>

\* C21: install and upgrade are issued with the atomic flag, and a failure
\* leaves the release as it was before the failed operation: after a failed
\* install the release is absent, after a failed upgrade it is at the
\* revision the upgrade found (the stale or current one the probe saw, or
\* the one the same call has just installed).
C21_FailedHelmOperationLeavesRelease ==
    /\ installAtomic /\ updateAtomic
    /\ (outcome = "fatal" /\ fatal.at \in PostProbeFailures) =>
        /\ calls[Len(calls)].op = "Upgrade"
        /\ helmCalls[Len(helmCalls)] = HelmEvent(fatal.at, "error")
        /\ fatal.at = "install" =>
            /\ Probed = "not found"
            /\ release[calls[Len(calls)].chart] = "absent"
        /\ fatal.at = "upgrade" =>
            release[calls[Len(calls)].chart]
                = IF Probed = "not found" THEN "stale" ELSE Probed
    /\ \A ch \in AllCharts : release[ch] \in {"unobserved", "absent", "stale", "current"}

\* The upgrade of a release that had the desired values has failed.
C21_Witness ==
    /\ outcome = "fatal"
    /\ helmCalls = <<HelmEvent("history", "current"), HelmEvent("upgrade", "error")>>

-----------------------------------------------------------------------------
(* Properties of component delete *)

\* The operations op of a delete call.
OpsOf(d, op) == {i \in DOMAIN d.ops : d.ops[i].op = op}

\* The answer the history query of a delete call got ("none": not queried).
HistoryOf(d) == IF d.ops = <<>> THEN "none" ELSE d.ops[1].result

\* The namespace step of a delete call has failed.
NamespaceFailed(d) ==
    d.deleteNS /\ d.err \in {"read kubeconfig", "clientset", "namespace delete"}

\* No collaborator has failed during the call: the Helm client was prepared,
\* the history query answered found or not found, and neither the uninstall
\* nor the namespace step returned an error other than not found.
FaultFree(d) ==
    /\ d.err # "helm client"
    /\ ~NamespaceFailed(d)
    /\ \A i \in DOMAIN d.ops : d.ops[i].result # "error"

\* C16: two delete calls in a row for the same component, from any release
\* state and with no collaborator failing: both return nil, the first leaves
\* the release absent (uninstalling it if it was there), the second finds it
\* absent, uninstalls nothing and leaves it absent.
C16_DeleteIdempotent ==
    \A i \in 1..(Len(deletes) - 1) :
        (/\ deletes[i].name = deletes[i + 1].name
         /\ FaultFree(deletes[i])
         /\ FaultFree(deletes[i + 1])) =>
            /\ deletes[i].err = "nil"
            /\ deletes[i + 1].err = "nil"
            /\ deletes[i].after = "absent"
            /\ deletes[i + 1].before = "absent"
            /\ HistoryOf(deletes[i + 1]) = "not found"
            /\ OpsOf(deletes[i + 1], "uninstall") = {}
            /\ deletes[i + 1].after = "absent"
            /\ i + 1 = Len(deletes) => installed[deletes[i].name] = "absent"

\* An installed component was deleted twice in a row with its namespace.
C16_Witness ==
    /\ Len(deletes) >= 2
    /\ deletes[1].name = deletes[2].name
    /\ deletes[1].before = "present"
    /\ deletes[1].deleteNS /\ deletes[2].deleteNS
    /\ FaultFree(deletes[1]) /\ FaultFree(deletes[2])

\* C17: a delete call for a component that has no release never invokes the
\* uninstall and leaves the release absent; the missing history is no error:
\* the call returns nil unless the Helm client could not be prepared or the
\* namespace deletion asked for with --delete-namespace has failed.
C17_NoHistoryNoUninstall ==
    \A i \in DOMAIN deletes :
        deletes[i].before = "absent" =>
            /\ OpsOf(deletes[i], "uninstall") = {}
            /\ deletes[i].after = "absent"
            /\ deletes[i].err \notin {"history", "uninstall"}
            /\ deletes[i].err = "nil"
                   \/ deletes[i].err = "helm client"
                   \/ NamespaceFailed(deletes[i])
            /\ (HistoryOf(deletes[i]) = "not found" /\ ~deletes[i].deleteNS)
                   => deletes[i].err = "nil"

\* A delete without --delete-namespace for a component that was never
\* installed has queried the history and returned nil.
C17_Witness ==
    /\ Len(deletes) >= 1
    /\ deletes[1].before = "absent"
    /\ ~deletes[1].deleteNS
    /\ HistoryOf(deletes[1]) = "not found"
    /\ deletes[1].err = "nil"

\* C18 as stated, for the component delete of a release that is installed:
\* when the history query fails with an error other than not found, the
\* delete call returns an error (it does not report success with the release
\* taken for absent).
C18_HistoryErrorSurfaced ==
    \A i \in DOMAIN deletes :
        (deletes[i].before = "present" /\ HistoryOf(deletes[i]) = "error")
            => deletes[i].err # "nil"

\* The answer the namespace deletion of a delete call got ("none": the
\* deletion was not issued).
NamespaceDeleteOf(d) ==
    IF OpsOf(d, "delete namespace") = {} THEN "none" ELSE d.ops[Len(d.ops)].result

\* C22: a delete call issues the namespace deletion only with
\* --delete-namespace, and at most once; without the flag the namespace stays
\* as it was.  When the API answers not found the call returns nil, when the
\* deletion succeeds it returns nil and the namespace is gone, and any other
\* answer of the deletion is returned as the error of the call.
C22_NamespaceDeletion ==
    \A i \in DOMAIN deletes :
        /\ NamespaceDeleteOf(deletes[i]) # "none" => deletes[i].deleteNS
        /\ Cardinality(OpsOf(deletes[i], "delete namespace")) <= 1
        /\ ~deletes[i].deleteNS => deletes[i].nsAfter = deletes[i].nsBefore
        /\ NamespaceDeleteOf(deletes[i]) = "not found" =>
            /\ deletes[i].nsBefore = "absent"
            /\ deletes[i].err = "nil"
            /\ deletes[i].nsAfter = "absent"
        /\ NamespaceDeleteOf(deletes[i]) = "ok" =>
            /\ deletes[i].err = "nil"
            /\ deletes[i].nsAfter = "absent"
        /\ NamespaceDeleteOf(deletes[i]) = "error" =>
            /\ deletes[i].err = "namespace delete"
            /\ deletes[i].nsAfter = deletes[i].nsBefore
        /\ deletes[i].err = "namespace delete" =>
            NamespaceDeleteOf(deletes[i]) = "error"

\* A delete with --delete-namespace has uninstalled the release and found
\* the namespace already gone.
C22_Witness ==
    /\ Len(deletes) >= 1
    /\ deletes[1].deleteNS
    /\ deletes[1].before = "present"
    /\ OpsOf(deletes[1], "uninstall") # {}
    /\ NamespaceDeleteOf(deletes[1]) = "not found"

\* deleteNS was called during the delete call: the deletion was issued, or
\* deleteNS failed before it, reading the kubeconfig or building the client.
NamespaceAttempted(d) ==
    \/ OpsOf(d, "delete namespace") # {}
    \/ d.err \in {"read kubeconfig", "clientset"}

-----------------------------------------------------------------------------
(* Properties of the readiness poll *)

\* C23 as stated: a call of the condition function reports ready exactly
\* when the available replicas equal the replicas the Deployment asks for
\* and that count is above zero.
C23_ReadyIffAvailableEqualsDesired ==
    polled > 0 =>
        (done <=> /\ observed.err = "nil"
                  /\ observed.availableReplicas = observed.specReplicas
                  /\ observed.specReplicas > 0)

\* C24 as stated: when the poll has timed out, what waitForDeployment hands
\* to its caller differs from what it hands over after a poll that found the
\* Deployment ready.
C24_TimeoutReturnedAsError ==
    (pollPc = "returned" /\ pollErr = "timed out") =>
        waitForDeployment(pollErr) # waitForDeployment("nil")

\* The poll has ended in one of its three outcomes.
PollEnded == pollPc = "returned" /\ pollErr \in {"nil", "timed out", "error"}

\* C25: every poll ends, ready, timed out or with the error of the API, and
\* the condition function is called at most once at the start, once per
\* interval that fits into the timeout and once more when the timeout
\* elapses.
C25_PollTerminatesWithinBound ==
    /\ [](polled <= pollTimeout \div pollInterval + 2)
    /\ [](pollPc = "returned" => PollEnded)
    /\ <>PollEnded

\* A poll has timed out after a call of the condition function at the start,
\* at every interval and at the close.
C25_Witness ==
    /\ pollPc = "returned"
    /\ pollErr = "timed out"
    /\ pollInterval < pollTimeout
    /\ polled = pollTimeout \div pollInterval + 2

\* C25 as stated: every poll ends, and the condition function is called at
\* most once at the start and once per interval that fits into the timeout.
C25_PollTerminatesWithinIntervals ==
    /\ [](polled <= pollTimeout \div pollInterval + 1)
    /\ <>PollEnded

\* C38: after a Get that answered not found the poll is not ready and goes
\* on, ending only when the timeout has elapsed, and then as timed out;
\* after a Get that answered another error the poll has ended at once with
\* that error, and is not ready.
C38_NotFoundIsPending ==
    polled > 0 =>
        /\ observed.err = "not found" =>
            /\ ~done
            /\ pollPc \in {"waiting", "tick", "returned"}
            /\ pollPc = "returned" => (pollErr = "timed out" /\ now = pollTimeout)
            /\ pollPc # "returned" => pollErr = "pending"
        /\ observed.err = "error" =>
            /\ ~done
            /\ pollPc = "returned"
            /\ pollErr = "error"
        /\ pollErr = "error" => observed.err = "error"

\* The Deployment was not found at the start, at a tick and at the close.
C38_Witness ==
    /\ polled >= 3
    /\ observed.err = "not found"
    /\ pollPc = "returned"
    /\ pollErr = "timed out"

-----------------------------------------------------------------------------
(* Properties of the AKS configuration *)

\* NewConfig has returned for a body that was decoded.
Validated == aksPc = "returned" /\ aksInput.body = "decoded"

\* The positions of the diagnostics returned that have this summary and name
\* this pool or field.
Matching(summary, subject) ==
    {i \in DOMAIN aksDiags : aksDiags[i] = Diagnostic(summary, subject)}

\* The worker pools of the configuration that satisfy P.
PoolsWith(P(_)) ==
    {i \in DOMAIN aksInput.cfg.WorkerPools : P(aksInput.cfg.WorkerPools[i])}

\* C26: for a configuration without worker pools NewConfig returns a
\* non-empty list of diagnostics, with "At least one worker pool must be
\* defined" among them, and no Config, whatever the other fields and the
\* environment are.
C26_NoWorkerPoolsRejected ==
    (Validated /\ Len(aksInput.cfg.WorkerPools) = 0) =>
        /\ aksDiags # <<>>
        /\ aksConfig = <<>>
        /\ Matching("At least one worker pool must be defined", "") # {}

\* A configuration whose only flaw is that it has no worker pools.
C26_Witness ==
    /\ Validated
    /\ Len(aksInput.cfg.WorkerPools) = 0
    /\ aksDiags = <<Diagnostic("At least one worker pool must be defined", "")>>

\* C27: the diagnostics "Worker pool ... is duplicated" name exactly the
\* names that occur more than once: none for a name that occurs once, and
\* for a name that occurs k > 1 times one for each occurrence after the
\* first, k - 1 in all.
C27_DuplicatedNamesFlagged ==
    Validated =>
        \A n \in PoolNames :
            LET k == Cardinality(PoolsWith(LAMBDA w : w.Name = n))
            IN  Cardinality(Matching("Worker pool names should be unique", n))
                    = IF k = 0 THEN 0 ELSE k - 1

\* Two pools named a and one named b: one diagnostic, for a.
C27_Witness ==
    /\ Validated
    /\ Cardinality(PoolsWith(LAMBDA w : w.Name = "a")) = 2
    /\ Cardinality(PoolsWith(LAMBDA w : w.Name = "b")) = 1
    /\ aksInput.cfg.WorkerPools[1].Name = "a"
    /\ Cardinality(Matching("Worker pool names should be unique", "a")) = 1
    /\ Matching("Worker pool names should be unique", "b") = {}

\* C28: for every pool name, the diagnostics "count must be bigger than 0"
\* that name it are as many as the pools of that name whose count is 0 or
\* negative: every such pool produces one, a pool with a count of 1 or more
\* produces none.
C28_CountMustBePositive ==
    Validated =>
        \A n \in PoolNames :
            Cardinality(Matching("count must be bigger than 0", n))
                = Cardinality(PoolsWith(LAMBDA w : w.Name = n /\ w.Count <= 0))

\* A pool a with count 0 beside a pool b with count 1.
C28_Witness ==
    /\ Validated
    /\ Len(aksInput.cfg.WorkerPools) = 2
    /\ aksInput.cfg.WorkerPools[1] = [Name |-> "a", Count |-> 0, VMSize |-> "x"]
    /\ aksInput.cfg.WorkerPools[2] = [Name |-> "b", Count |-> 1, VMSize |-> "x"]
    /\ Matching("count must be bigger than 0", "a") # {}
    /\ Matching("count must be bigger than 0", "b") = {}

\* 1 if the condition holds, else 0.
OneIf(b) == IF b THEN 1 ELSE 0

\* The number of diagnostics each rule of the validation asks for on the
\* configuration and environment of the call: summary, subject and number.
Violations ==
    LET cfg == aksInput.cfg
        env == aksInput.env
        app == cfg.ApplicationName # ""
    IN  {<<"At least one worker pool must be defined", "",
           OneIf(Len(cfg.WorkerPools) = 0)>>,
         <<"ClientID and ApplicationName are mutually exclusive", "",
           OneIf(app /\ cfg.ClientID # "")>>,
         <<"ClientSecret and ApplicationName are mutually exclusive", "",
           OneIf(app /\ cfg.ClientSecret # "")>>,
         <<"cannot find the Azure client secret", "ClientSecret",
           OneIf(~app /\ cfg.ClientSecret = "" /\ env[clientSecretEnv] = "")>>,
         <<"cannot find the Azure client ID", "ClientID",
           OneIf(~app /\ cfg.ClientID = "" /\ env[clientIDEnv] = "")>>,
         <<"cannot find the Azure subscription ID", "SubscriptionID",
           OneIf(cfg.SubscriptionID = "" /\ env[subscriptionIDEnv] = "")>>,
         <<"cannot find the Azure client ID", "TenantID",
           OneIf(cfg.TenantID = "" /\ env[tenantIDEnv] = "")>>}
        \cup {<<"field can't be empty", f, OneIf(cfg[f] = "")>> : f \in RequiredFields}
        \cup {<<"Worker pool names should be unique", n,
                LET k == Cardinality(PoolsWith(LAMBDA w : w.Name = n))
                IN  IF k = 0 THEN 0 ELSE k - 1>> : n \in PoolNames}
        \cup {<<"VMSize field can't be empty", n,
                Cardinality(PoolsWith(LAMBDA w : w.Name = n /\ w.VMSize = ""))>>
              : n \in PoolNames}
        \cup {<<"count must be bigger than 0", n,
                Cardinality(PoolsWith(LAMBDA w : w.Name = n /\ w.Count <= 0))>>
              : n \in PoolNames}

\* C29: NewConfig returns a Config exactly when it returns no diagnostics,
\* and the diagnostics it returns are those of all the rules together: each
\* rule that is violated has its diagnostics in the list, whatever the other
\* rules find, and the list holds nothing else.
C29_AllViolationsReturned ==
    Validated =>
        /\ (aksConfig = <<>>) <=> (aksDiags # <<>>)
        /\ \A v \in Violations : Cardinality(Matching(v[1], v[2])) = v[3]
        /\ \A i \in DOMAIN aksDiags :
            \E v \in Violations : aksDiags[i] = Diagnostic(v[1], v[2])

\* A configuration that breaks a rule of every check: a single pool without
\* VM size and count, neither credentials nor application name, no
\* subscription ID and no asset directory.
C29_Witness ==
    /\ Validated
    /\ Len(aksInput.cfg.WorkerPools) = 1
    /\ aksConfig = <<>>
    /\ Matching("VMSize field can't be empty", "a") # {}
    /\ Matching("count must be bigger than 0", "a") # {}
    /\ Matching("cannot find the Azure client secret", "ClientSecret") # {}
    /\ Matching("cannot find the Azure subscription ID", "SubscriptionID") # {}
    /\ Matching("field can't be empty", "AssetDir") # {}
    /\ Matching("field can't be empty", "ClusterName") = {}

\* C39 as stated: a Config that NewConfig returns with an application name
\* has neither a client ID nor a client secret, whatever the environment
\* holds.
C39_ReturnedConfigKeepsCredentialRules ==
    (Validated /\ aksConfig # <<>> /\ aksConfig[1].ApplicationName # "") =>
        /\ aksConfig[1].ClientID = ""
        /\ aksConfig[1].ClientSecret = ""

-----------------------------------------------------------------------------
(* Properties of the kubeconfig path *)

\* The four sources of the kubeconfig path, in the order of their precedence.
KubeconfigSources ==
    <<kubeInput.flag,
      IF kubeInput.assetDir = <<>> THEN <<>>
      ELSE IF kubeInput.assetDir[Len(kubeInput.assetDir)] = "/"
           THEN kubeInput.assetDir \o <<"cluster-assets/auth/kubeconfig">>
           ELSE kubeInput.assetDir \o <<"/", "cluster-assets/auth/kubeconfig">>,
      kubeInput.env,
      <<"~", "/", ".kube/config">>>>

\* The path is ~ or starts with ~/.
BelowHome(path) == path[1] = "~" /\ (Len(path) = 1 \/ path[2] = "/")

\* C30: a path that is returned without an error comes from the first source
\* that is not empty, in the order flag, asset directory, KUBECONFIG,
\* ~/.kube/config: it is that source's path, with a leading ~/ replaced by
\* the home directory where there is one; it is never empty.  An error is
\* returned only when the asset directory cannot be read from the
\* configuration.
C30_FirstNonEmptySource ==
    kubePc = "returned" =>
        /\ kubeErr # "nil" => kubeInput.assetErr
        /\ kubeErr = "nil" =>
            /\ kubePath # <<>>
            /\ \E k \in 1..4 :
                /\ KubeconfigSources[k] # <<>>
                /\ \A j \in 1..(k - 1) : KubeconfigSources[j] = <<>>
                /\ kubePath =
                     IF /\ BelowHome(KubeconfigSources[k])
                        /\ kubeInput.home # <<>>
                     THEN kubeInput.home \o Tail(KubeconfigSources[k])
                     ELSE KubeconfigSources[k]

\* No flag, an asset directory and KUBECONFIG set: the path below the asset
\* directory is returned.
C30_Witness ==
    /\ kubePc = "returned"
    /\ kubeErr = "nil"
    /\ kubeInput.flag = <<>>
    /\ kubeInput.assetDir = <<"~", "/", "a">>
    /\ kubeInput.env = <<"/", "e">>
    /\ kubeInput.home = <<"/", "h">>
    /\ kubePath = <<"/", "h", "/", "a", "/", "cluster-assets/auth/kubeconfig">>

-----------------------------------------------------------------------------
(* Properties of a component delete run *)

\* The names the run was asked to delete.
Requested == componentsToDelete(delArgs, delConfigured)

\* One of the requested names is no component.
UnknownRequested == \E i \in DOMAIN Requested : Requested[i] \notin DeleteNames

C36_StopAtFirstFailure ==
    /\ Len(deletes) <= Len(delObjects)
    /\ \A i \in DOMAIN deletes :
        /\ deletes[i].name = delObjects[i]
        /\ i < Len(deletes) => deletes[i].err = "nil"
        /\ (\E u \in OpsOf(deletes[i], "uninstall") : deletes[i].ops[u].result = "ok")
            => installed[deletes[i].name] = "absent"
        /\ NamespaceDeleteOf(deletes[i]) = "ok" => namespaces[deletes[i].name] = "absent"
    /\ (deletes # <<>> /\ deletes[Len(deletes)].err # "nil") =>
        (delPc = "exit" /\ delOutcome = "fatal")
    /\ delOutcome = "success" =>
        /\ Len(deletes) = Len(delObjects)
        /\ \A i \in DOMAIN deletes : deletes[i].err = "nil"
    /\ (delPc = "exit" /\ deletes # <<>> /\ Len(deletes) = Len(delObjects)
        /\ deletes[Len(deletes)].err = "nil") => delOutcome = "success"

\* The first of two components was uninstalled, the uninstall of the second
\* has failed.
C36_Witness ==
    /\ delObjects = <<"rook", "contour">>
    /\ Len(deletes) = 2
    /\ deletes[1].before = "present"
    /\ deletes[1].err = "nil"
    /\ installed["rook"] = "absent"
    /\ deletes[2].err = "uninstall"
    /\ delOutcome = "fatal"


-----------------------------------------------------------------------------
(* Properties of a namespace update *)

\* The call has returned nil.
Updated == nsPc = "returned" /\ nsErr = "nil"

\* The keys of map m that carry Lokomotive's text.
LokomotiveKeys(m) == {k \in DOMAIN m : Contains(k, Lokomotive)}

\* The keys of map m that do not.
UserKeys(m) == DOMAIN m \ LokomotiveKeys(m)

\* Every Lokomotive-keyed entry of the desired map is in map after with the
\* desired value, and map after has no other Lokomotive-keyed entry.
LokomotiveKeysAsDesired(desired, after) ==
    /\ \A k \in LokomotiveKeys(desired.m) : k \in DOMAIN after /\ after[k] = desired.m[k]
    /\ LokomotiveKeys(after) \subseteq DOMAIN desired.m

\* Every user entry of map before is in map after with the value it had.
UserKeysKept(before, after) ==
    \A k \in UserKeys(before) : k \in DOMAIN after /\ after[k] = before[k]

C40_UserMetadataRetained ==
    /\ nsPc = "returned" => nsErr # "panic"
    /\ Updated =>
        /\ UserKeysKept(nsInput.existing.labels, nsObject.labels)
        /\ UserKeysKept(nsInput.existing.annotations, nsObject.annotations)

====
